---------------------------- MODULE Spec2Model ----------------------------
(***************************************************************************)
(* A model of doxypypy3: the docstring annotation engine (the Docstring    *)
(* Rewriter AstWalker.__alterDocstring, its two Code/Prose Detector        *)
(* instances AstWalker._checkIfCode, the Block Writer                      *)
(* AstWalker.__writeDocstring and the post-pass of                         *)
(* AstWalker._processDocstring) and the structural walker AstVisit.        *)
(*                                                                         *)
(* A Python string is modelled as a sequence of tokens.  A token is a      *)
(* whitespace chunk (" ", a four-space indent, a tab, a line break) or a   *)
(* chunk of non-whitespace text.  The regular expressions of src/compile.py*)
(* are modelled by what they match on such sequences.                      *)
(***************************************************************************)
EXTENDS Integers, Sequences, FiniteSets, TLC

VARIABLES
    options,          \* the option bundle (autobrief, autocode, tablength, topLevelNamespace)
    tail,             \* the trailing annotation handed to __alterDocstring
    rw,               \* the locals of the __alterDocstring coroutine
    docLines,         \* self.docLines
    defLines,         \* the declaration lines above the block (defLines of _processDocstring)
    inLines,          \* history: the raw lines of the block (of the module, for the walker)
    roles,            \* history: the branch of __alterDocstring that handled each line
    batches,          \* history: per batch sent to the writer, its span and its length
    pc,               \* the position of the run
    lines,            \* self.lines, the Source Buffer
    tree,             \* the syntax tree being walked, in source order
    cursor,           \* the index in tree of the node the walker stands on
    containingNodes,  \* the Containment Path (without the synthetic module root)
    visited,          \* history: per visited node, the path and the tail computed for it
    output,           \* the result of getLines
    name,             \* the argument of _checkMemberName
    restrictionLevel, \* the result of _checkMemberName
    batch             \* the batch handed to __writeDocstring

vars == << options, tail, rw, docLines, defLines, inLines, roles, batches, pc, lines, tree,
           cursor, containingNodes, visited, output, name, restrictionLevel, batch >>

(***************************************************************************)
(* Bounds of the model.                                                    *)
(***************************************************************************)
MaxFreeLines == 2
MaxNameLen == 5
MaxBatch == 3
MaxNodes == 2
MaxStmts == 2

None == << "None" >>
linesep == "\n"

(***************************************************************************)
(* Python string operations on token sequences.                            *)
(***************************************************************************)
Whitespace == {" ", "    ", "\t", "\n"}

RECURSIVE LStrip(_)
LStrip(s) == IF s # << >> /\ s[1] \in Whitespace THEN LStrip(Tail(s)) ELSE s

RECURSIVE RStrip(_)
RStrip(s) ==
    IF s # << >> /\ s[Len(s)] \in Whitespace THEN RStrip(SubSeq(s, 1, Len(s) - 1)) ELSE s

Strip(s) == LStrip(RStrip(s))

\* str.lstrip('#')
RECURSIVE LStripHash(_)
LStripHash(s) == IF s # << >> /\ s[1] = "#" THEN LStripHash(Tail(s)) ELSE s

\* str.strip(whitespace + '#')
RECURSIVE LStripWsHash(_)
LStripWsHash(s) ==
    IF s # << >> /\ s[1] \in Whitespace \cup {"#"} THEN LStripWsHash(Tail(s)) ELSE s

RECURSIVE RStripWsHash(_)
RStripWsHash(s) ==
    IF s # << >> /\ s[Len(s)] \in Whitespace \cup {"#"}
    THEN RStripWsHash(SubSeq(s, 1, Len(s) - 1)) ELSE s

StripWsHash(s) == LStripWsHash(RStripWsHash(s))

StartsWith(s, tok) == s # << >> /\ s[1] = tok

IsPrefixOf(p, s) == Len(p) <= Len(s) /\ SubSeq(s, 1, Len(p)) = p

\* str.replace(' ' + linesep, linesep): a single space right before a line
\* break is dropped (Python replaces non-overlapping occurrences left to right;
\* an indent chunk never stands before an inner line break, every inner line
\* break being written after an rstrip).
RECURSIVE ReplaceSpaceNewline(_)
ReplaceSpaceNewline(s) ==
    IF s = << >> THEN << >>
    ELSE IF Len(s) >= 2 /\ s[1] = " " /\ s[2] = linesep
         THEN << linesep >> \o ReplaceSpaceNewline(SubSeq(s, 3, Len(s)))
         ELSE << s[1] >> \o ReplaceSpaceNewline(Tail(s))

\* len(line.expandtabs(n)) - len(line.expandtabs(n).lstrip()): the width of the
\* leading whitespace, a tab reaching to the next multiple of n.
RECURSIVE IndentFrom(_, _, _)
IndentFrom(s, col, n) ==
    IF s = << >> \/ s[1] \notin Whitespace THEN col
    ELSE IndentFrom(Tail(s),
                    CASE s[1] = " " -> col + 1
                      [] s[1] = "    " -> col + 4
                      [] s[1] = "\t" -> IF n > 0 THEN col + (n - (col % n)) ELSE col
                      [] OTHER -> col + 1,
                    n)

Indent(s, n) == IndentFrom(s, 0, n)

\* list indexing lst[k] with Python's negative indices: the 1-based position,
\* or 0 when Python raises IndexError.
PyIndex(lst, k) ==
    IF k >= 0 /\ k < Len(lst) THEN k + 1
    ELSE IF k < 0 /\ -k <= Len(lst) THEN Len(lst) + k + 1
    ELSE 0

Contains(s, tok) == \E i \in 1..Len(s) : s[i] = tok


(***************************************************************************)
(* The regular-expression table RE of src/compile.py, on token sequences.  *)
(***************************************************************************)
WordTokens == {"x", "a", "b", "word", "the", "value", "abc", "Some", "Hello"}

\* _blanklineRE
BlankLine(line) == Strip(line) = << >>

\* _singleLineREs: the labels (with the directive replacing each) the model's
\* lines use.
SingleLineTags ==
    ("Author:" :> << " ", "@author:", " " >>) @@ ("Note:" :> << " ", "@note", " " >>)

\* tagRE.search(line): the pattern is anchored at the start of the line, takes
\* the leading whitespace, the label and the whitespace after it as group 1.
SingleLineMatch(line) ==
    LStrip(line) # << >> /\ LStrip(line)[1] \in DOMAIN SingleLineTags

\* line.replace(match.group(1), doxyTag)
SingleLineReplace(line) ==
    SingleLineTags[LStrip(line)[1]] \o LStrip(Tail(LStrip(line)))

\* _returnsStartRE
ReturnsStart(line) == Strip(line) \in {<< "Returns:" >>, << "Yields:" >>}

\* _argsStartRE
ArgsStart(line) ==
    Strip(line) \in {<< "Args:" >>, << "Arguments:" >>, << "Attributes:" >>}

\* 'attr' in match.group(0).lower()
MentionsAttr(line) == Strip(line) = << "Attributes:" >>

\* _raisesStartRE
RaisesStart(line) ==
    Strip(line) \in {<< "Raises:" >>, << "Exceptions:" >>, << "See", " ", "Also:" >>}

\* 'see' in match.group(1).lower()
MentionsSee(line) == Strip(line) = << "See", " ", "Also:" >>

\* _examplesStartRE
ExamplesStart(line) ==
    Strip(line) \in {<< "Examples:" >>, << "Example:" >>, << "Doctest:" >>}

\* _sectionStartRE: one or two capitalised words and a colon; group 1 is the
\* heading without the colon.
SectionWord ==
    ("Intent:" :> "Intent") @@ ("Examples:" :> "Examples") @@ ("Example:" :> "Example")
    @@ ("Doctest:" :> "Doctest") @@ ("Returns:" :> "Returns") @@ ("Yields:" :> "Yields")
    @@ ("Args:" :> "Args") @@ ("Arguments:" :> "Arguments")
    @@ ("Attributes:" :> "Attributes") @@ ("Raises:" :> "Raises")
    @@ ("Exceptions:" :> "Exceptions") @@ ("Note:" :> "Note") @@ ("Author:" :> "Author")

SectionStart(line) == Len(Strip(line)) = 1 /\ Strip(line)[1] \in DOMAIN SectionWord

\* _argsRE: name, an optional type, a dash or colon, whitespace, a description.
\* The record holds whether the line matches and the groups name and desc.
RECURSIVE SkipWs(_, _)
SkipWs(b, i) == IF i <= Len(b) /\ b[i] \in Whitespace THEN SkipWs(b, i + 1) ELSE i

TypeTokens == {"(int)", "(str)"}

ArgsMatch(line) ==
    LET b == Strip(line)
        p1 == SkipWs(b, 2)
        p2 == IF p1 <= Len(b) /\ b[p1] \in TypeTokens THEN p1 + 1 ELSE p1
        p3 == SkipWs(b, p2)
        p4 == SkipWs(b, p3 + 1)
        ok == /\ Len(b) >= 1
              /\ b[1] \in WordTokens
              /\ p3 <= Len(b)
              /\ b[p3] \in {":", "-"}
              /\ p4 > p3 + 1
              /\ p4 <= Len(b)
              /\ ~Contains(b, linesep)
    IN  [ok |-> ok,
         name |-> IF ok THEN b[1] ELSE "",
         desc |-> IF ok THEN SubSeq(b, p4, Len(b)) ELSE << >>]

\* _listRE: words joined by commas; _listItemRE.findall gives the words.
RECURSIVE IsCommaList(_, _)
IsCommaList(b, commas) ==
    IF Len(b) = 1 THEN b[1] \in WordTokens /\ commas > 0
    ELSE /\ Len(b) >= 3
         /\ b[1] \in WordTokens
         /\ b[2] = ","
         /\ IsCommaList(LStrip(SubSeq(b, 3, Len(b))), commas + 1)

ListMatch(line) == Strip(line) # << >> /\ IsCommaList(Strip(line), 0)

ListItems(line) == SelectSeq(Strip(line), LAMBDA t : t \in WordTokens)

\* _singleListItemRE: one run of word characters and dots.
SingleListItem(line) ==
    Len(Strip(line)) = 1 /\ Strip(line)[1] \in WordTokens \cup {"..."}

\* _errorLineRE: a traceback line or a single word.
ErrorLine(testLine) ==
    /\ testLine # << >>
    /\ ~Contains(testLine, linesep)
    /\ \/ Len(testLine) = 1 /\ testLine[1] \in WordTokens \cup {"..."}
       \/ testLine[1] = "Traceback"

(***************************************************************************)
(* codeop.compile_command on the accumulated text: "code" for a code       *)
(* object, "incomplete" for None, "SyntaxError" when it raises.  The text  *)
(* is read line by line: an opening line f( , a closing line 1) , an       *)
(* expression, or text that is no Python.                                  *)
(***************************************************************************)
\* the first physical line of a text, and the text after it
FirstLineEnd(t) ==
    IF Contains(t, linesep) THEN CHOOSE i \in 1..Len(t) :
                                     t[i] = linesep /\ \A j \in 1..(i - 1) : t[j] # linesep
    ELSE Len(t) + 1

PhysKind(l) ==
    LET b == Strip(l) IN
    CASE b = << "f(" >> -> "open"
      [] b = << "1)" >> -> "close"
      [] b = << "f(1)" >> -> "expr"
      [] b = << >> -> "blank"
      [] Len(b) = 1 /\ b[1] \in WordTokens \cup {"..."} -> "expr"
      [] b # << >> /\ IsCommaList(b, 0) -> "expr"
      [] OTHER -> "bad"

RECURSIVE CompileFrom(_, _, _, _)
CompileFrom(t, depth, operand, done) ==
    IF t = << >> THEN (IF done THEN "code" ELSE "incomplete")
    ELSE LET e == FirstLineEnd(t)
             k == PhysKind(SubSeq(t, 1, e - 1))
             rest == SubSeq(t, e + 1, Len(t))
         IN  CASE k = "blank" -> CompileFrom(rest, depth, operand, done)
               [] k = "bad" -> "SyntaxError"
               [] done -> "SyntaxError"
               [] depth = 0 /\ k = "open" -> CompileFrom(rest, 1, FALSE, FALSE)
               [] depth = 0 /\ k = "close" -> "SyntaxError"
               [] depth = 0 -> CompileFrom(rest, 0, FALSE, TRUE)
               [] operand -> "SyntaxError"
               [] k = "open" -> CompileFrom(rest, depth + 1, FALSE, FALSE)
               [] k = "close" -> CompileFrom(rest, depth - 1, TRUE, depth = 1)
               [] OTHER -> CompileFrom(rest, depth, TRUE, FALSE)

compile_command(testLine) == CompileFrom(testLine, 0, FALSE, FALSE)

(***************************************************************************)
(* AstWalker._checkIfCode: one Code/Prose Detector instance.  at is the    *)
(* yield the coroutine is suspended at: "start" (line 80), "ambiguous"     *)
(* (lines 89 and 115) or "more" (line 101).  lineOfCode is the local of    *)
(* that name, as "True", "False" or "None"; markers is the history of the  *)
(* markers the instance wrote.                                             *)
(***************************************************************************)
NewChecker(inCodeBlock) ==
    [inCodeBlock |-> inCodeBlock, at |-> "start", testLine |-> << >>,
     testLineNum |-> 1, currentLineNum |-> 0, lineOfCode |-> "None",
     markers |-> << >>]

CodeMarker == << linesep, "#", " ", "@code", linesep >>
EndCodeMarker == << linesep, "#", " ", "@endcode", linesep >>

\* the marker written without the change of the in-code flag
InsertMarker_NoFlag(ck, lns, lineOfCode) ==
    LET idx == PyIndex(lns, ck.currentLineNum)
        back == [ck EXCEPT !.at = "start",
                           !.lineOfCode = IF lineOfCode THEN "True" ELSE "False"]
    IN  IF ~ck.inCodeBlock /\ lineOfCode = TRUE
        THEN IF idx = 0 THEN [ck |-> back, lines |-> lns, crashed |-> TRUE]
             ELSE [ck |-> [back EXCEPT !.markers = Append(@, "@code")],
                   lines |-> [lns EXCEPT ![idx] = @ \o CodeMarker],
                   crashed |-> FALSE]
        ELSE IF ck.inCodeBlock /\ lineOfCode = FALSE
        THEN IF idx = 0 THEN [ck |-> back, lines |-> lns, crashed |-> TRUE]
             ELSE [ck |-> [back EXCEPT !.markers = Append(@, "@endcode")],
                   lines |-> [lns EXCEPT ![idx] = @ \o EndCodeMarker],
                   crashed |-> FALSE]
        ELSE [ck |-> back, lines |-> lns, crashed |-> FALSE]

\* lines 119-132: the marker written once the run is classified.  The result
\* holds the checker, the pending lines and whether an IndexError escaped.
InsertMarker(ck, lns, lineOfCode) ==
    LET idx == PyIndex(lns, ck.currentLineNum)
        back == [ck EXCEPT !.at = "start",
                           !.lineOfCode = IF lineOfCode THEN "True" ELSE "False"]
    IN  IF ~ck.inCodeBlock /\ lineOfCode = TRUE
        THEN IF idx = 0 THEN [ck |-> back, lines |-> lns, crashed |-> TRUE]
             ELSE [ck |-> [back EXCEPT !.inCodeBlock = TRUE,
                                       !.markers = Append(@, "@code")],
                   lines |-> [lns EXCEPT ![idx] = @ \o CodeMarker],
                   crashed |-> FALSE]
        ELSE IF ck.inCodeBlock /\ lineOfCode = FALSE
        THEN IF idx = 0 THEN [ck |-> back, lines |-> lns, crashed |-> TRUE]
             ELSE [ck |-> [back EXCEPT !.inCodeBlock = FALSE,
                                       !.markers = Append(@, "@endcode")],
                   lines |-> [lns EXCEPT ![idx] = @ \o EndCodeMarker],
                   crashed |-> FALSE]
        ELSE [ck |-> back, lines |-> lns, crashed |-> FALSE]

\* the inner loop taking an empty line for text that is not code
ClassifyTestLine_EmptyNotCode(ck, lns) ==
    IF ck.testLine = << >> THEN [yield |-> "", lineOfCode |-> FALSE]
    ELSE IF ck.testLine = << "..." >> \/ ErrorLine(ck.testLine)
    THEN [yield |-> "ambiguous", lineOfCode |-> None]
    ELSE IF StartsWith(ck.testLine, ">>> ")
    THEN [yield |-> "", lineOfCode |-> TRUE]
    ELSE LET compLine == compile_command(ck.testLine)
             idx == PyIndex(lns, ck.currentLineNum)
         IN  CASE compLine = "SyntaxError" -> [yield |-> "", lineOfCode |-> FALSE]
               [] compLine = "incomplete" -> [yield |-> "more", lineOfCode |-> None]
               [] idx = 0 -> [yield |-> "ambiguous", lineOfCode |-> None]
               [] StartsWith(Strip(lns[idx]), "#") -> [yield |-> "", lineOfCode |-> TRUE]
               [] OTHER -> [yield |-> "more", lineOfCode |-> None]

\* the inner loop without the prompt test of line 92
ClassifyTestLine_NoPrompt(ck, lns) ==
    IF ck.testLine = << >> \/ ck.testLine = << "..." >> \/ ErrorLine(ck.testLine)
    THEN [yield |-> "ambiguous", lineOfCode |-> None]
    ELSE LET compLine == compile_command(ck.testLine)
             idx == PyIndex(lns, ck.currentLineNum)
         IN  CASE compLine = "SyntaxError" -> [yield |-> "", lineOfCode |-> FALSE]
               [] compLine = "incomplete" -> [yield |-> "more", lineOfCode |-> None]
               [] idx = 0 -> [yield |-> "ambiguous", lineOfCode |-> None]
               [] StartsWith(Strip(lns[idx]), "#") -> [yield |-> "", lineOfCode |-> TRUE]
               [] OTHER -> [yield |-> "more", lineOfCode |-> None]

\* lines 86-117, one pass of the inner loop on testLine: "yield" with the yield
\* reached, or the classification lineOfCode.
ClassifyTestLine(ck, lns) ==
    IF ck.testLine = << >> \/ ck.testLine = << "..." >> \/ ErrorLine(ck.testLine)
    THEN [yield |-> "ambiguous", lineOfCode |-> None]
    ELSE IF StartsWith(ck.testLine, ">>> ")
    THEN [yield |-> "", lineOfCode |-> TRUE]
    ELSE LET compLine == compile_command(ck.testLine)
             idx == PyIndex(lns, ck.currentLineNum)
         IN  CASE compLine = "SyntaxError" -> [yield |-> "", lineOfCode |-> FALSE]
               [] compLine = "incomplete" -> [yield |-> "more", lineOfCode |-> None]
               \* lines[currentLineNum] raises IndexError: "except Exception"
               [] idx = 0 -> [yield |-> "ambiguous", lineOfCode |-> None]
               [] StartsWith(Strip(lns[idx]), "#") -> [yield |-> "", lineOfCode |-> TRUE]
               [] OTHER -> [yield |-> "more", lineOfCode |-> None]

\* checker.send((line, lines, lineNum)): the coroutine resumed at its yield and
\* run to its next yield.
CheckIfCodeSend(ck, line, lns, lineNum) ==
    LET stripped == Strip(line)
        prompt == ck.at = "more" /\ StartsWith(stripped, ">>> ")
        r1 == CASE ck.at = "start" ->
                     [ck EXCEPT !.testLineNum = 1, !.currentLineNum = 0,
                                !.testLine = stripped]
                [] ck.at = "ambiguous" ->
                     [ck EXCEPT !.testLine = stripped,
                                !.currentLineNum = lineNum - ck.testLineNum]
                [] prompt ->
                     [ck EXCEPT !.currentLineNum = lineNum - ck.testLineNum]
                [] OTHER ->
                     [ck EXCEPT !.testLine = Strip(ck.testLine \o << linesep >> \o stripped),
                                !.testLineNum = ck.testLineNum + 1,
                                !.currentLineNum = lineNum - (ck.testLineNum + 1)]
        cl == IF prompt THEN [yield |-> "", lineOfCode |-> TRUE]
              ELSE ClassifyTestLine(r1, lns)
        \* line 118, at the end of the pass that classified
        r2 == [r1 EXCEPT !.currentLineNum =
                   IF prompt THEN @ ELSE lineNum - r1.testLineNum]
    IN  IF cl.yield # ""
        THEN [ck |-> [r1 EXCEPT !.at = cl.yield, !.lineOfCode = "None"],
              lines |-> lns, crashed |-> FALSE]
        ELSE InsertMarker(r2, lns, cl.lineOfCode)

(***************************************************************************)
(* AstWalker.__writeDocstring: the Block Writer.                           *)
(***************************************************************************)
RECURSIVE PadLines(_, _)
PadLines(lns, n) == IF Len(lns) < n THEN PadLines(Append(lns, << >>), n) ELSE lns

\* lst[first : last + 1] = new, with Python's clipping of the slice bounds
SliceAssign(lst, first, last, new) ==
    LET start == IF first < Len(lst) THEN first ELSE Len(lst)
        stop  == IF last + 1 < start THEN start
                 ELSE IF last + 1 < Len(lst) THEN last + 1 ELSE Len(lst)
    IN  SubSeq(lst, 1, start) \o new \o SubSeq(lst, stop + 1, Len(lst))

\* the slice assignment without the padding
WriteDocstring_NoPad(dl, firstLineNum, lastLineNum, lns) ==
    SliceAssign(dl, firstLineNum, lastLineNum, lns)

WriteDocstring(dl, firstLineNum, lastLineNum, lns) ==
    SliceAssign(dl, firstLineNum, lastLineNum,
                PadLines(lns, lastLineNum - firstLineNum + 1))

(***************************************************************************)
(* AstWalker.__alterDocstring: the Docstring Rewriter.  A context holds    *)
(* the coroutine's locals, the line in hand, self.docLines, and what the   *)
(* pass did: crashed (an IndexError escaped), cont (the "continue" of a    *)
(* heading), role (the branch taken), sent (per batch sent to the writer,  *)
(* firstLineNum, lastLineNum and len(lines)).                              *)
(***************************************************************************)
NewRewriter ==
    [lines |-> << >>, timeToSend |-> FALSE, inCodeBlock |-> FALSE, inSection |-> FALSE,
     prefix |-> << >>, firstLineNum |-> -1, sectionHeadingIndent |-> 0,
     codeChecker |-> NewChecker(FALSE), proseChecker |-> NewChecker(TRUE)]

RewriterFields ==
    {"lines", "timeToSend", "inCodeBlock", "inSection", "prefix", "firstLineNum",
     "sectionHeadingIndent", "codeChecker", "proseChecker"}

Context(r, dl, line) ==
    [lines |-> r.lines, timeToSend |-> r.timeToSend, inCodeBlock |-> r.inCodeBlock,
     inSection |-> r.inSection, prefix |-> r.prefix, firstLineNum |-> r.firstLineNum,
     sectionHeadingIndent |-> r.sectionHeadingIndent, codeChecker |-> r.codeChecker,
     proseChecker |-> r.proseChecker,
     line |-> line, docLines |-> dl, crashed |-> FALSE, cont |-> FALSE,
     role |-> "plain", sent |-> << >>]

\* _endCodeIfNeeded(line, inCodeBlock), the line it returns
EndCodeIfNeeded(line, inCodeBlock) ==
    IF inCodeBlock THEN << "#", " ", "@endcode", linesep >> \o RStrip(line) ELSE line

\* lines[-1], inCodeBlock = self._endCodeIfNeeded(lines[-1], inCodeBlock)
EndCodeOnLast(c) ==
    IF c.lines = << >> THEN [c EXCEPT !.crashed = TRUE]
    ELSE [c EXCEPT !.lines[Len(c.lines)] = EndCodeIfNeeded(@, c.inCodeBlock),
                   !.inCodeBlock = FALSE]

\* lines 161-171: a single-line tag flushes the pending lines
SingleLineTag(c, lineNum) ==
    IF ~SingleLineMatch(c.line) THEN c
    ELSE LET e == EndCodeOnLast(c) IN
         IF e.crashed THEN e
         ELSE [e EXCEPT !.docLines = WriteDocstring(@, e.firstLineNum, lineNum - 1, e.lines),
                        !.sent = Append(@, << e.firstLineNum, lineNum - 1, Len(e.lines) >>),
                        !.lines = << >>,
                        !.firstLineNum = lineNum,
                        !.line = SingleLineReplace(c.line),
                        !.timeToSend = TRUE,
                        !.role = "tag"]

\* lines 173-186: does the line still belong to the open section
SectionContinuation(c) ==
    IF c.crashed \/ ~c.inSection \/ BlankLine(c.line) THEN c
    ELSE IF Indent(c.line, options.tablength) <= c.sectionHeadingIndent
    THEN [c EXCEPT !.inSection = FALSE]
    ELSE IF c.lines = << >> THEN [c EXCEPT !.crashed = TRUE]
    ELSE IF c.lines[Len(c.lines)] = << "#" >>
    THEN [c EXCEPT !.lines[Len(c.lines)] = << "#", " ", "@par" >>]
    ELSE c

\* lines 196-205 and 220-230: an Arguments or a Raises heading
HeadingContinue(c, prefix, role) ==
    LET e == EndCodeOnLast([c EXCEPT !.prefix = prefix, !.role = role]) IN
    IF e.crashed THEN e
    ELSE [e EXCEPT !.lines = Append(@, << "#" >>), !.line = << >>, !.cont = TRUE]

\* lines 212-216: an item / description pair
PairLine(prefix, m) ==
    IF prefix # << >> /\ prefix[1] = "@property"
    THEN << "#", " " >> \o prefix \o << "\t", m.name, linesep, "#", " " >> \o m.desc
    ELSE << " " >> \o prefix \o << "\t", m.name, "\t" >> \o m.desc

\* lines 235-240: ''.join(itemList)[1:]
RECURSIVE JoinItems(_, _)
JoinItems(prefix, items) ==
    IF items = << >> THEN << >>
    ELSE << "#", " " >> \o prefix \o << "\t", items[1], linesep >>
         \o JoinItems(prefix, Tail(items))

ListLine(prefix, items) == Tail(JoinItems(prefix, items))

\* lines 250-268: an arbitrary section heading
SectionHeading(c) ==
    LET c1 == [c EXCEPT !.prefix = << >>,
                        !.inSection = TRUE,
                        !.sectionHeadingIndent = Indent(c.line, options.tablength),
                        !.line = << " ", "@par", " ", SectionWord[Strip(c.line)[1]] >>,
                        !.role = "section"]
    IN  IF c1.lines = << >> THEN [c1 EXCEPT !.crashed = TRUE]
        ELSE LET c2 == IF c1.lines[Len(c1.lines)] = << "#", " ", "@par" >>
                       THEN [c1 EXCEPT !.lines[Len(c1.lines)] = << "#" >>]
                       ELSE c1
                 e == EndCodeOnLast(c2)
             IN  [e EXCEPT !.lines = Append(@, << "#" >> \o c1.line), !.cont = TRUE]

\* lines 275-288: the line goes to a Code/Prose Detector instance
ToProseChecker(c, lineNum) ==
    LET r == CheckIfCodeSend(c.proseChecker, c.line, c.lines, lineNum - c.firstLineNum)
    IN  [c EXCEPT !.proseChecker = r.ck, !.lines = r.lines, !.crashed = r.crashed,
                  !.role = "proseChecker"]

ToCodeChecker(c, lineNum) ==
    LET r == CheckIfCodeSend(c.codeChecker, c.line, c.lines, lineNum - c.firstLineNum)
    IN  [c EXCEPT !.codeChecker = r.ck, !.lines = r.lines, !.crashed = r.crashed,
                  !.role = "codeChecker"]

\* lines 269-288: no heading, pair or list matched
Fallback(c, lineNum) ==
    IF c.prefix = << >> THEN c
    ELSE IF SingleListItem(c.line) /\ ~c.inCodeBlock
    THEN [c EXCEPT !.line = << " " >> \o c.prefix \o << "\t" >> \o c.line, !.role = "item"]
    ELSE IF options.autocode /\ c.inCodeBlock THEN ToProseChecker(c, lineNum)
    ELSE IF options.autocode THEN ToCodeChecker(c, lineNum)
    ELSE c

\* a Returns heading treated like an Arguments heading: the heading text is
\* dropped and no tag is written
ReturnsHeading_Dropped(c) ==
    [c EXCEPT !.line = << >>, !.prefix = << "@return", "\t" >>, !.role = "returns"]

\* lines 189-192: a Returns heading
ReturnsHeading(c) ==
    [c EXCEPT !.line = RStrip(<< " ", "@return", "\t" >>),
              !.prefix = << "@return", "\t" >>, !.role = "returns"]

\* lines 188-288: the classification of one line
Classify(c, lineNum) ==
    IF c.crashed THEN c
    ELSE IF ReturnsStart(c.line) THEN ReturnsHeading(c)
    ELSE IF ArgsStart(c.line)
    THEN HeadingContinue(c, IF MentionsAttr(c.line) THEN << "@property", "\t" >>
                                                    ELSE << "@param", "\t" >>, "args")
    ELSE IF ArgsMatch(c.line).ok /\ ~c.inCodeBlock
    THEN [c EXCEPT !.line = PairLine(c.prefix, ArgsMatch(c.line)), !.role = "pair"]
    ELSE IF RaisesStart(c.line)
    THEN HeadingContinue(c, IF MentionsSee(c.line) THEN << "@sa", "\t" >>
                                                   ELSE << "@exception", "\t" >>, "raises")
    ELSE IF ListMatch(c.line) /\ ~c.inCodeBlock
    THEN [c EXCEPT !.line = ListLine(c.prefix, ListItems(c.line)), !.role = "list"]
    ELSE IF ExamplesStart(c.line) /\ c.lines = << >>
    THEN [c EXCEPT !.crashed = TRUE]
    ELSE IF /\ ExamplesStart(c.line)
            /\ Strip(c.lines[Len(c.lines)]) = << "#" >>
            /\ options.autocode
    THEN [c EXCEPT !.inCodeBlock = TRUE,
                   !.line = << " ", "@b", " ", "Examples", linesep, "#", " ", "@code" >>,
                   !.role = "examples"]
    ELSE IF SectionStart(c.line) THEN SectionHeading(c)
    ELSE Fallback(c, lineNum)

\* the append without the doubled marker of the first line
AppendLine_NoDouble(c, lineNum, isLast, tl) ==
    IF c.crashed \/ c.cont THEN c
    ELSE LET l1 == IF tl # << >> /\ isLast
                   THEN RStrip(c.line) \o << linesep, "#", " " >> \o tl
                   ELSE c.line
         IN  [c EXCEPT !.lines = Append(@, ReplaceSpaceNewline(<< "#" >> \o RStrip(l1)))]

\* the append with strip() in place of rstrip()
AppendLine_Strip(c, lineNum, isLast, tl) ==
    IF c.crashed \/ c.cont THEN c
    ELSE LET l1 == IF tl # << >> /\ isLast
                   THEN RStrip(c.line) \o << linesep, "#", " " >> \o tl
                   ELSE c.line
             l2 == << "#" >> \o Strip(l1)
             l3 == IF lineNum = 0 THEN << "#" >> \o l2 ELSE l2
         IN  [c EXCEPT !.lines = Append(@, ReplaceSpaceNewline(l3))]

\* lines 290-302: the tail, the comment marker, the append to the pending lines
AppendLine(c, lineNum, isLast, tl) ==
    IF c.crashed \/ c.cont THEN c
    ELSE LET l1 == IF tl # << >> /\ isLast
                   THEN RStrip(c.line) \o << linesep, "#", " " >> \o tl
                   ELSE c.line
             l2 == << "#" >> \o RStrip(l1)
             l3 == IF lineNum = 0 THEN << "#" >> \o l2 ELSE l2
         IN  [c EXCEPT !.lines = Append(@, ReplaceSpaceNewline(l3))]

\* lines 307-313: the pending lines go to the writer
Flush(c, lineNum) ==
    IF c.crashed \/ c.cont \/ ~c.timeToSend THEN c
    ELSE LET e == EndCodeOnLast(c) IN
         IF e.crashed THEN e
         ELSE [e EXCEPT !.docLines = WriteDocstring(@, e.firstLineNum, lineNum, e.lines),
                        !.sent = Append(@, << e.firstLineNum, lineNum, Len(e.lines) >>),
                        !.lines = << >>,
                        !.firstLineNum = -1,
                        !.timeToSend = FALSE]

\* the pass with the test of line 160 taking either option for a reason to
\* classify
AlterDocstringSend_EitherOption(r, dl, lineNum, line, tl) ==
    LET c0 == Context([r EXCEPT !.firstLineNum = IF @ < 0 THEN lineNum ELSE @], dl, line)
        isLast == lineNum = Len(dl) - 1
    IN  IF line = None
        THEN Flush([c0 EXCEPT !.timeToSend = TRUE, !.role = "sentinel"], lineNum)
        ELSE IF ~options.autobrief /\ ~options.autocode
        THEN Flush(AppendLine(c0, lineNum, isLast, tl), lineNum)
        ELSE Flush(AppendLine(Classify(SectionContinuation(SingleLineTag(c0, lineNum)),
                                       lineNum),
                              lineNum, isLast, tl),
                   lineNum)

\* docstringConverter.send((lineNum, line)): one pass of the coroutine's loop.
\* line is None for the sentinel; isLast is lineNum == len(self.docLines) - 1;
\* tl is the tail the coroutine was created with.
AlterDocstringSend(r, dl, lineNum, line, tl) ==
    LET c0 == Context([r EXCEPT !.firstLineNum = IF @ < 0 THEN lineNum ELSE @], dl, line)
        isLast == lineNum = Len(dl) - 1
    IN  IF line = None
        THEN Flush([c0 EXCEPT !.timeToSend = TRUE, !.role = "sentinel"], lineNum)
        ELSE IF ~options.autobrief
        THEN Flush(AppendLine(c0, lineNum, isLast, tl), lineNum)
        ELSE Flush(AppendLine(Classify(SectionContinuation(SingleLineTag(c0, lineNum)),
                                       lineNum),
                              lineNum, isLast, tl),
                   lineNum)

\* the coroutine's locals after a pass
Locals(c) == [f \in RewriterFields |-> c[f]]

\* _processDocstring lines 376-380: every line of self.docLines is sent to a
\* fresh Rewriter, then the sentinel.  The result holds self.docLines and
\* whether an IndexError escaped.
RECURSIVE SendAll(_, _, _, _)

\* the pass c is over: the loop goes on unless it was the sentinel's pass or
\* an IndexError escaped
AfterSend(c, lineNum, tl) ==
    IF c.crashed \/ c.role = "sentinel"
    THEN [docLines |-> c.docLines, crashed |-> c.crashed]
    ELSE SendAll(Locals(c), c.docLines, lineNum + 1, tl)

SendAll(r, dl, lineNum, tl) ==
    AfterSend(IF lineNum = Len(dl)
              THEN AlterDocstringSend(r, dl, Len(dl) - 1, None, tl)
              ELSE AlterDocstringSend(r, dl, lineNum, dl[lineNum + 1], tl),
              lineNum, tl)

RewriteBlock(dl, tl) ==
    IF dl = << >> THEN [docLines |-> dl, crashed |-> FALSE]
    ELSE SendAll(NewRewriter, dl, 0, tl)

(***************************************************************************)
(* AstWalker._processDocstring, lines 382-403: the brief tag and the       *)
(* indentation of the rewritten block.                                     *)
(***************************************************************************)
AtTokens ==
    {"@brief", "@return", "@param", "@property", "@exception", "@sa", "@par", "@b",
     "@code", "@endcode", "@note", "@author:", "@protected", "@private", "@namespace",
     "@interface"}

\* docLines[0].lstrip('#').strip() == ''
FullyBlank(entry) == Strip(LStripHash(entry)) = << >>

\* the loop with its escape one iteration late
RECURSIVE Rotation_LateBreak(_, _)
Rotation_LateBreak(dl, safetyCounter) ==
    IF Len(dl) > 0 /\ FullyBlank(dl[1])
    THEN LET next == Append(Tail(dl), << >>) IN
         IF safetyCounter + 1 > Len(next)
         THEN [docLines |-> next, safetyCounter |-> safetyCounter + 1]
         ELSE Rotation_LateBreak(next, safetyCounter + 1)
    ELSE [docLines |-> dl, safetyCounter |-> safetyCounter]

\* lines 384-391: the loop, with the block and the counter it ends with
RECURSIVE Rotation(_, _)
Rotation(dl, safetyCounter) ==
    IF Len(dl) > 0 /\ FullyBlank(dl[1])
    THEN LET next == Append(Tail(dl), << >>) IN
         IF safetyCounter + 1 >= Len(next)
         THEN [docLines |-> next, safetyCounter |-> safetyCounter + 1]
         ELSE Rotation(next, safetyCounter + 1)
    ELSE [docLines |-> dl, safetyCounter |-> safetyCounter]

\* lines 384-391: leading blank entries go to the end
RotateBlank(dl, safetyCounter) == Rotation(dl, safetyCounter).docLines

\* the test without its directive case
BriefApplies_BlankOnly(dl) ==
    \/ Len(dl) = 1
    \/ Len(dl) >= 2 /\ StripWsHash(dl[2]) = << >>

\* lines 392-394
BriefApplies(dl) ==
    \/ Len(dl) = 1
    \/ /\ Len(dl) >= 2
       /\ \/ StripWsHash(dl[2]) = << >>
          \/ StripWsHash(dl[2])[1] \in AtTokens

\* lines 395-397
AddBrief(dl) ==
    LET d1 == [dl EXCEPT ![1] = << "#", "#", " ", "@brief", " " >> \o LStripHash(@)]
    IN  IF Len(d1) > 1 /\ d1[2] = << "#", " ", "@par" >> THEN [d1 EXCEPT ![2] = << "#" >>]
        ELSE d1

BriefPass(dl) ==
    IF ~options.autobrief THEN dl
    ELSE LET r == RotateBlank(dl, 0) IN
         IF Len(r) > 0 /\ BriefApplies(r) THEN AddBrief(r) ELSE r

\* _indentRE.match(line).group(1), or ''
RECURSIVE LeadingWs(_)
LeadingWs(s) ==
    IF s # << >> /\ s[1] \in Whitespace THEN << s[1] >> \o LeadingWs(Tail(s)) ELSE << >>

IndentStr(line) == IF Strip(line) = << >> THEN << >> ELSE LeadingWs(line)

\* _newlineRE.sub(indentStr + '#', docLine): every '#' that starts a physical
\* line of the entry gets the indentation before it
RECURSIVE NewlineSub(_, _, _)
NewlineSub(indentStr, entry, atStart) ==
    IF entry = << >> THEN << >>
    ELSE (IF atStart /\ entry[1] = "#" THEN indentStr ELSE << >>)
         \o << entry[1] >>
         \o NewlineSub(indentStr, Tail(entry), entry[1] = linesep)

\* lines 399-403
IndentPass(dl, decl) ==
    IF decl = << >> THEN dl
    ELSE [i \in 1..Len(dl) |-> NewlineSub(IndentStr(decl[1]), dl[i], TRUE)]

(***************************************************************************)
(* The lines a Documentation Block is drawn from.                          *)
(***************************************************************************)
Ind == "    "

BlankL    == << linesep >>
ProseL    == << Ind, "Some", " ", "prose.", " ", linesep >>
DeepProseL == << Ind, Ind, "Some", " ", "prose.", linesep >>
ReturnsL  == << Ind, "Returns:", linesep >>
ArgsL     == << Ind, "Args:", linesep >>
AttrsL    == << Ind, "Attributes:", linesep >>
RaisesL   == << Ind, "Raises:", linesep >>
PairL     == << Ind, Ind, "x", " ", "(int)", ":", " ", "the", " ", "value", linesep >>
ListL     == << Ind, Ind, "a", ",", " ", "b", linesep >>
ExamplesL == << Ind, "Examples:", linesep >>
SectionL  == << Ind, "Intent:", linesep >>
WordL     == << Ind, Ind, "word", linesep >>
PromptL   == << Ind, Ind, ">>> ", "f(1)", linesep >>
CodeL     == << Ind, Ind, "f(1)", linesep >>
OpenL     == << Ind, Ind, "f(", linesep >>
CloseL    == << Ind, Ind, "1)", linesep >>
TagL      == << Ind, "Note:", " ", "abc", linesep >>
TopSectionL == << "Intent:", linesep >>

InputLines ==
    {BlankL, ProseL, DeepProseL, ReturnsL, ArgsL, AttrsL, RaisesL, PairL, ListL,
     ExamplesL, SectionL, WordL, PromptL, CodeL, OpenL, CloseL, TagL}

RECURSIVE SeqsUpTo(_, _)
SeqsUpTo(S, n) ==
    IF n = 0 THEN {<< >>}
    ELSE LET shorter == SeqsUpTo(S, n - 1) IN
         shorter \cup {Append(q, x) : q \in {t \in shorter : Len(t) = n - 1}, x \in S}

\* a block is one of a few openings (nothing; an active prefix; an open code
\* block under a prefix; an open section; an open section whose heading
\* stands in the first column, as in a module's documentation string)
\* followed by up to MaxFreeLines lines
Openings ==
    {<< >>, << ReturnsL >>, << ReturnsL, BlankL, ExamplesL >>, << ProseL, SectionL >>,
     << BlankL, ProseL, BlankL >>, << ProseL, TopSectionL >>}

\* ast.get_docstring is false for a block of blank lines only: such a block is
\* never handed to _processDocstring
Documented(b) == \E i \in 1..Len(b) : ~BlankLine(b[i])

Blocks ==
    {b \in {p \o f : p \in Openings, f \in SeqsUpTo(InputLines, MaxFreeLines)} :
        Documented(b)}

\* the nodes a block hangs on: a public method (an indented declaration, no
\* tail) and a protected top-level function (a visibility tail)
ProtectedTail == << linesep, "#", " ", "@protected" >>
MethodDecl == << Ind, "def", " ", "f(self):", linesep >>
FunctionDecl == << "def", " ", "_f():", linesep >>

Owners ==
    {[tail |-> << >>, defLines |-> << MethodDecl >>],
     [tail |-> ProtectedTail, defLines |-> << FunctionDecl >>]}

\* without autobrief no line is classified: the openings add nothing
BlocksFor(opts) ==
    IF opts.autobrief THEN Blocks
    ELSE {b \in SeqsUpTo(InputLines, MaxFreeLines) : Documented(b)}

OptionSets ==
    [autobrief : BOOLEAN, autocode : BOOLEAN, tablength : {4}, topLevelNamespace : {""}]

(***************************************************************************)
(* Spec: _processDocstring on one Documentation Block: the lines are sent  *)
(* to the Rewriter one at a time, then the sentinel, then the brief tag    *)
(* and the indentation.                                                    *)
(***************************************************************************)
Idle == [name |-> << >>, restrictionLevel |-> None, batch |-> << >>,
         lines |-> << >>, tree |-> << >>, cursor |-> 0,
         containingNodes |-> << >>, visited |-> << >>, output |-> None]

IdleOthers ==
    /\ name = Idle.name
    /\ restrictionLevel = Idle.restrictionLevel
    /\ batch = Idle.batch
    /\ lines = Idle.lines
    /\ tree = Idle.tree
    /\ cursor = Idle.cursor
    /\ containingNodes = Idle.containingNodes
    /\ visited = Idle.visited
    /\ output = Idle.output

otherVars ==
    << name, restrictionLevel, batch, lines, tree, cursor, containingNodes, visited, output >>

Init ==
    /\ options \in OptionSets
    /\ \E o \in Owners : tail = o.tail /\ defLines = o.defLines
    /\ inLines \in BlocksFor(options)
    /\ docLines = inLines
    /\ rw = NewRewriter
    /\ roles = << >>
    /\ batches = << >>
    /\ pc = "send"
    /\ IdleOthers

\* the outcome c of a pass of the Rewriter
Sent(c, next) ==
    /\ rw' = Locals(c)
    /\ docLines' = c.docLines
    /\ roles' = IF c.role = "sentinel" THEN roles ELSE Append(roles, c.role)
    /\ batches' = batches \o c.sent
    /\ pc' = IF c.crashed THEN "crashed" ELSE next

\* docstringConverter.send(lineInfo) for the next line of enumerate(self.docLines)
Send ==
    /\ pc = "send"
    /\ Len(roles) < Len(docLines)
    /\ Sent(AlterDocstringSend(rw, docLines, Len(roles), docLines[Len(roles) + 1], tail),
            "send")
    /\ UNCHANGED << options, tail, defLines, inLines, otherVars >>

\* docstringConverter.send((len(self.docLines) - 1, None))
SendSentinel ==
    /\ pc = "send"
    /\ Len(roles) = Len(docLines)
    /\ Sent(AlterDocstringSend(rw, docLines, Len(docLines) - 1, None, tail), "rewritten")
    /\ UNCHANGED << options, tail, defLines, inLines, otherVars >>

\* lines 382-397
Brief ==
    /\ pc = "rewritten"
    /\ docLines' = BriefPass(docLines)
    /\ pc' = "briefed"
    /\ UNCHANGED << options, tail, rw, defLines, inLines, roles, batches, otherVars >>

\* lines 399-403
IndentBlock ==
    /\ pc = "briefed"
    /\ docLines' = IndentPass(docLines, defLines)
    /\ pc' = "done"
    /\ UNCHANGED << options, tail, rw, defLines, inLines, roles, batches, otherVars >>

Next == Send \/ SendSentinel \/ Brief \/ IndentBlock

Spec == Init /\ [][Next]_vars

(***************************************************************************)
(* Properties of the Docstring Rewriter, checked under Spec.               *)
(***************************************************************************)
Rewritten == pc \in {"rewritten", "briefed", "done"}

RECURSIVE Flatten(_)
Flatten(dl) == IF dl = << >> THEN << >> ELSE dl[1] \o Flatten(Tail(dl))

CodeMarkers(dl) == SelectSeq(Flatten(dl), LAMBDA t : t \in {"@code", "@endcode"})

RECURSIVE Alternates(_, _)
Alternates(ms, open) ==
    IF ms = << >> THEN ~open
    ELSE IF ms[1] = "@code" THEN ~open /\ Alternates(Tail(ms), TRUE)
    ELSE open /\ Alternates(Tail(ms), FALSE)

\* C1: with autobrief and autocode on, the @code and @endcode markers of a
\* rewritten block alternate, starting with @code and ending with @endcode
\* (every @code is closed, none is nested, no @endcode stands alone).
C1_CodeBlockBalance ==
    (options.autobrief /\ options.autocode /\ Rewritten)
        => Alternates(CodeMarkers(docLines), FALSE)

\* C2: with autobrief off, the rewritten block has one entry per input line,
\* in the same order, each starting with the comment marker (the first with
\* the doubled marker) followed by the line's text.
C2_LineCountPreserved ==
    (~options.autobrief /\ pc = "rewritten")
        => /\ Len(docLines) = Len(inLines)
           /\ \A i \in 1..Len(inLines) :
                LET marker == IF i = 1 THEN << "#", "#" >> ELSE << "#" >>
                IN  IsPrefixOf(marker \o RStrip(inLines[i]), docLines[i])

C2_Witness ==
    /\ ~options.autobrief
    /\ pc = "rewritten"
    /\ Len(inLines) >= 2
    /\ inLines[1] = ArgsL
    /\ tail # << >>

\* the headings that change the prefix
ChangesPrefix(line) ==
    ReturnsStart(line) \/ ArgsStart(line) \/ RaisesStart(line) \/ SectionStart(line)

SamePrefixSince(i, j) == \A k \in (i + 1)..(j - 1) : ~ChangesPrefix(inLines[k])

\* C7: with autobrief on, an Arguments heading is taken wherever it stands
\* (the first line included) without the run failing, it becomes an entry of
\* its own, and every name/description line after it, until another heading
\* changes the prefix, is emitted as an entry carrying @param (@property for
\* an Attributes heading) with the name and the description.
C7_ArgumentsSection ==
    options.autobrief =>
        /\ \A i \in 1..Len(roles) :
              ArgsStart(inLines[i]) => ~(pc = "crashed" /\ i = Len(roles))
        /\ pc = "rewritten" =>
              \A i \in 1..Len(inLines) :
                  ArgsStart(inLines[i]) =>
                      /\ docLines[i] \in {<< "#" >>, << "#", "#" >>}
                      /\ \A j \in (i + 1)..Len(inLines) :
                            (ArgsMatch(inLines[j]).ok /\ SamePrefixSince(i, j)) =>
                                /\ Contains(docLines[j],
                                            IF MentionsAttr(inLines[i]) THEN "@property"
                                            ELSE "@param")
                                /\ Contains(docLines[j], ArgsMatch(inLines[j]).name)
                                /\ Contains(docLines[j], "value")

\* C8: with autobrief on, the entry of a Returns heading carries the @return
\* tag, so every later line of the section stands below a line carrying it,
\* and every name/description or single-item line rewritten under that
\* heading carries the tag itself; the final block still holds the tag.
C8_ReturnsSection ==
    options.autobrief =>
        /\ pc = "rewritten" =>
              \A i \in 1..Len(inLines) :
                  ReturnsStart(inLines[i]) =>
                      /\ Contains(docLines[i], "@return")
                      /\ \A j \in (i + 1)..Len(inLines) :
                            (roles[j] \in {"pair", "item"} /\ SamePrefixSince(i, j))
                                => Contains(docLines[j], "@return")
        /\ pc \in {"briefed", "done"} =>
              ((\E i \in 1..Len(inLines) : ReturnsStart(inLines[i]))
                  => \E k \in 1..Len(docLines) : Contains(docLines[k], "@return"))

C8_Witness ==
    /\ options.autobrief
    /\ pc = "done"
    /\ inLines = << ReturnsL, PairL, ProseL >>
    /\ Contains(docLines[2], "@return")

\* the entries with the leading fully-blank ones moved to the end
LeadingBlank(dl) ==
    CHOOSE k \in 0..Len(dl) :
        /\ \A i \in 1..k : FullyBlank(dl[i])
        /\ k = Len(dl) \/ ~FullyBlank(dl[k + 1])

Rotated(dl) ==
    LET k == LeadingBlank(dl) IN SubSeq(dl, k + 1, Len(dl)) \o [i \in 1..k |-> << >>]

\* the first token of the entry that is neither whitespace nor '#', if there
\* is one, is a directive
BlankOrDirective(entry) ==
    \A i \in 1..Len(entry) :
        (/\ entry[i] \notin Whitespace \cup {"#"}
         /\ \A j \in 1..(i - 1) : entry[j] \in Whitespace \cup {"#"})
            => entry[i] \in AtTokens

\* C9: with autobrief on, the brief pass keeps the number of entries; taking
\* the block with its leading blank entries moved to the end, the first entry
\* gets the brief marker exactly when it is the only entry or the second one
\* is blank or a directive; no other entry gets the marker; a blank comment
\* after the brief line stays a blank comment; entries from the third on are
\* unchanged.
C9_BriefSynthesis ==
    [][(pc = "rewritten" /\ pc' = "briefed" /\ options.autobrief) =>
        LET r == Rotated(docLines)
            d == docLines'
            applies == Len(r) = 1 \/ BlankOrDirective(r[2])
        IN  /\ Len(d) = Len(docLines)
            /\ Contains(d[1], "@brief") <=> applies
            /\ d[1] = IF applies THEN << "#", "#", " ", "@brief", " " >> \o LStripHash(r[1])
                      ELSE r[1]
            /\ \A i \in 2..Len(d) : ~Contains(d[i], "@brief")
            /\ (Len(r) >= 2 /\ r[2] = << "#" >>) => d[2] = << "#" >>
            /\ \A i \in 3..Len(d) : d[i] = r[i]
      ]_vars

C9_Witness ==
    /\ options.autobrief
    /\ pc = "briefed"
    /\ inLines = << BlankL, ProseL, BlankL, DeepProseL >>
    /\ IsPrefixOf(<< "#", "#", " ", "@brief", " " >>, docLines[1])
    /\ Contains(docLines[1], "prose.")
    /\ docLines[2] = << "#" >>
    /\ docLines[4] = << >>

\* the entry without the indentation and the comment marker put before it
Unmarked(entry, marker) ==
    LET lead == IndentStr(defLines[1]) \o marker
    IN  IF IsPrefixOf(lead, entry) THEN SubSeq(entry, Len(lead) + 1, Len(entry))
        ELSE << "?" >> \o entry

\* C10: with autobrief off and no tail, taking the comment marker (and the
\* indentation before it) off every entry of the final block gives the input
\* lines, in order, up to trailing whitespace.
C10_RoundTrip ==
    (~options.autobrief /\ tail = << >> /\ pc = "done")
        => /\ Len(docLines) = Len(inLines)
           /\ \A i \in 1..Len(inLines) :
                RStrip(Unmarked(docLines[i], IF i = 1 THEN << "#", "#" >> ELSE << "#" >>))
                    = RStrip(inLines[i])

C10_Witness ==
    /\ ~options.autobrief
    /\ tail = << >>
    /\ pc = "done"
    /\ inLines = << ProseL, PairL >>
    /\ docLines[1] = << Ind, "#", "#", Ind, "Some", " ", "prose." >>

\* no line of the block is a single-line tag
NoTagLine == \A i \in 1..Len(inLines) : ~SingleLineMatch(inLines[i])

\* C11: for a block of n >= 1 lines with no single-line tag, no pass of the
\* Rewriter fails, no batch is sent before the sentinel, and the sentinel's
\* pass sends exactly one batch, with span (0, n-1) and n entries; a code
\* block the Rewriter holds open is closed on the last pending line; after
\* the pass the pending buffer is empty and the first-line marker is reset.
C11_SentinelFlush ==
    [][NoTagLine =>
        LET n == Len(inLines) IN
        /\ pc' # "crashed"
        /\ (pc = "send" /\ pc' = "send") => batches' = << >>
        /\ (pc = "send" /\ pc' = "rewritten") =>
              /\ batches' = << << 0, n - 1, n >> >>
              /\ Len(docLines') = n
              /\ rw.inCodeBlock =>
                    IsPrefixOf(<< "#", " ", "@endcode", linesep >>, docLines'[n])
              /\ rw'.lines = << >>
              /\ rw'.firstLineNum = -1
              /\ ~rw'.inCodeBlock
      ]_vars

\* the batches sent so far lie end to end from index 0, each as long as its span
Contiguous(bs) ==
    \A i \in 1..Len(bs) :
        /\ bs[i][1] = (IF i = 1 THEN 0 ELSE bs[i - 1][2] + 1)
        /\ bs[i][1] <= bs[i][2]
        /\ bs[i][3] = bs[i][2] - bs[i][1] + 1

\* C12: with autobrief on, no pass over a single-line tag line fails, wherever
\* the line stands, nor does the sentinel's pass after one; the spans of the
\* batches sent are in increasing order, disjoint and without a gap from
\* index 0, and once the block is rewritten they end at its last index; a tag
\* line that was passed closed the batch of the lines before it and went out
\* as a batch of its own.
C12_BatchOrdering ==
    options.autobrief =>
        /\ (pc = "crashed" /\ roles # << >>) => ~SingleLineMatch(inLines[Len(roles)])
        /\ Contiguous(batches)
        /\ Rewritten =>
              batches # << >> /\ batches[Len(batches)][2] = Len(inLines) - 1
        /\ pc # "crashed" =>
              \A k \in 1..Len(roles) :
                  SingleLineMatch(inLines[k]) =>
                      /\ \E i \in 1..Len(batches) : batches[i] = << k - 1, k - 1, 1 >>
                      /\ k > 1 => \E i \in 1..Len(batches) : batches[i][2] = k - 2

\* how many times the token stands in the entries of the block
Occurrences(dl, tok) == Len(SelectSeq(Flatten(dl), LAMBDA t : t = tok))

\* C13: for a block handed over with a non-empty tail, with autobrief on or
\* off and whatever the last line is, the rewritten block holds the tail's
\* directive exactly once, and the entry of the last line ends with the tail
\* as a comment line of its own; the brief and the indentation passes keep
\* the directive's single occurrence.
C13_TrailingAnnotation ==
    (tail # << >> /\ Rewritten) =>
        /\ Occurrences(docLines, tail[Len(tail)]) = 1
        /\ pc = "rewritten" =>
              LET last == docLines[Len(inLines)] IN
              /\ Len(last) > Len(tail)
              /\ SubSeq(last, Len(last) - Len(tail) + 1, Len(last)) = tail

\* C19: whatever lines a block is made of and in whatever order (headings,
\* single-line tags, section lines, first or right after a flush), no pass
\* of the Rewriter over a line or over the sentinel ends in an index error:
\* the pending lines are never found empty where the last one is read.
C19_NoMissingPreviousLine ==
    [][pc = "send" => pc' # "crashed"]_vars

\* the line matches none of the patterns the Rewriter knows
NoPattern(line) ==
    /\ ~SingleLineMatch(line)
    /\ ~ReturnsStart(line)
    /\ ~ArgsStart(line)
    /\ ~ArgsMatch(line).ok
    /\ ~RaisesStart(line)
    /\ ~ListMatch(line)
    /\ ~ExamplesStart(line)
    /\ ~SectionStart(line)
    /\ ~SingleListItem(line)

\* C20: with autobrief and autocode on, a line that matches none of the
\* patterns goes to a Code/Prose Detector instance, with or without an
\* active prefix: to the one looking for the end of code when the Rewriter
\* is inside a code block, to the one looking for the start of code
\* otherwise.
C20_DetectorHandOff ==
    [][(/\ options.autobrief
        /\ options.autocode
        /\ pc = "send"
        /\ pc' = "send"
        /\ Len(roles') = Len(roles) + 1
        /\ NoPattern(docLines[Len(roles) + 1])) =>
            roles'[Len(roles')] = IF rw.inCodeBlock THEN "proseChecker" ELSE "codeChecker"
      ]_vars

IsSuffixOf(p, q) == Len(p) <= Len(q) /\ SubSeq(q, Len(q) - Len(p) + 1, Len(q)) = p

\* the @endcode markers written so far, in the block and in the pending lines
EndCodes(dl, pending) == Occurrences(dl, "@endcode") + Occurrences(pending, "@endcode")

\* the line the pass of this step is about
LineInHand == inLines[Len(roles) + 1]

\* the step is the Rewriter's pass over a line of the block, not over the sentinel
LinePass == pc = "send" /\ Len(roles') = Len(roles) + 1

\* the lines at which the Rewriter closes the code block it holds open: a
\* single-line tag, an Arguments or Raises heading, a section heading (an
\* Examples heading that is not honoured is one)
Closer(line, honoured) ==
    \/ SingleLineMatch(line)
    \/ ArgsStart(line)
    \/ RaisesStart(line)
    \/ SectionStart(line) /\ ~ReturnsStart(line) /\ (ExamplesStart(line) => ~honoured)

\* C21: with autobrief on, an Examples heading sets the Rewriter's code block
\* flag and becomes `@b Examples` followed by `@code` when autocode is on and
\* the last pending line is an empty comment line; otherwise it opens no code
\* block and writes no @code.  While the flag is set no @endcode is written
\* until the next Arguments, Raises or section heading, single-line tag or
\* the sentinel, whose pass clears the flag and writes exactly one @endcode.
C21_ExamplesHeading ==
    [][(options.autobrief /\ pc = "send" /\ pc' # "crashed") =>
        LET honoured == /\ options.autocode
                        /\ rw.lines # << >>
                        /\ Strip(rw.lines[Len(rw.lines)]) = << "#" >>
            before == EndCodes(docLines, rw.lines)
            after == EndCodes(docLines', rw'.lines)
        IN  /\ (LinePass /\ ExamplesStart(LineInHand) /\ honoured) =>
                  /\ rw'.inCodeBlock
                  /\ IsPrefixOf(<< "#", " ", "@b", " ", "Examples", linesep, "#", " ", "@code" >>,
                                rw'.lines[Len(rw'.lines)])
            /\ (LinePass /\ ExamplesStart(LineInHand) /\ ~honoured) =>
                  /\ ~rw'.inCodeBlock
                  /\ Occurrences(rw'.lines, "@code") = Occurrences(rw.lines, "@code")
            /\ (rw.inCodeBlock /\ LinePass /\ ~Closer(LineInHand, honoured)) =>
                  /\ rw'.inCodeBlock
                  /\ after = before
            /\ (rw.inCodeBlock /\ (~LinePass \/ Closer(LineInHand, honoured))) =>
                  /\ ~rw'.inCodeBlock
                  /\ after = before + 1
      ]_vars

\* the @par tokens written so far, in the block and in the pending lines
Pars(dl, pending) == Occurrences(dl, "@par") + Occurrences(pending, "@par")

\* C22: with autobrief on and the Rewriter inside a section, the pass over a
\* line does not fail; a blank line leaves the section open; a non-blank line
\* indented no deeper than the heading ends the section (unless it is itself
\* the heading of a new one); a deeper non-blank line that finds an empty
\* comment as the last pending line turns it into `# @par` and leaves the
\* section open.  Outside a section no pass but that of a section heading
\* writes a @par.
C22_SectionContinuation ==
    [][(options.autobrief /\ LinePass) =>
        LET line == LineInHand
            deeper == Indent(line, options.tablength) > rw.sectionHeadingIndent
            n == Len(rw.lines)
        IN  /\ rw.inSection =>
                  /\ pc' # "crashed"
                  /\ BlankLine(line) => rw'.inSection /\ rw'.lines[n] = rw.lines[n]
                  /\ (~BlankLine(line) /\ ~deeper) =>
                        (rw'.inSection => roles'[Len(roles')] = "section")
                  /\ (~BlankLine(line) /\ deeper) =>
                        /\ rw'.inSection
                        /\ rw.lines[n] = << "#" >> =>
                              /\ Len(rw'.lines) > n
                              /\ IsPrefixOf(<< "#", " ", "@par" >>, rw'.lines[n])
            /\ (~rw.inSection /\ pc' # "crashed" /\ roles'[Len(roles')] # "section") =>
                  Pars(docLines', rw'.lines) = Pars(docLines, rw.lines)
      ]_vars

\* the Code/Prose Detector instance the pass of this step sent its line to
Sender == roles'[Len(roles')]

DetectorPass == LinePass /\ pc' # "crashed" /\ Sender \in {"codeChecker", "proseChecker"}

\* the line begins, after its leading whitespace, with the prompt marker
PromptLine(line) == StartsWith(Strip(line), ">>> ")

\* C23: a line beginning with the prompt marker that is sent to a Code/Prose
\* Detector instance is classified as code in the pass it is sent in,
\* whether the instance was at its first yield, had skipped an ambiguous line
\* or was waiting for the rest of an incomplete statement: the instance's
\* lineOfCode is True; where the write of the marker does not fail the
\* instance is back at its first yield with its in-code flag set, and the
\* open marker was written if and only if the flag was not set before.
C23_PromptRule ==
    [][(LinePass /\ options.autobrief /\ options.autocode /\ rw.prefix # << >>
        /\ PromptLine(LineInHand)) =>
            /\ Sender = (IF rw.inCodeBlock THEN "proseChecker" ELSE "codeChecker")
            /\ rw'[Sender].lineOfCode = "True"
            /\ pc' # "crashed" =>
                  /\ rw'[Sender].at = "start"
                  /\ rw'[Sender].inCodeBlock
                  /\ rw'[Sender].markers =
                        IF rw[Sender].inCodeBlock THEN rw[Sender].markers
                        ELSE Append(rw[Sender].markers, "@code")
      ]_vars

\* a prompt line reached an instance that was waiting for the rest of an
\* incomplete statement
C23_Witness ==
    /\ pc = "done"
    /\ options.autocode
    /\ inLines = << ReturnsL, OpenL, PromptL >>
    /\ roles = << "returns", "codeChecker", "codeChecker" >>
    /\ rw.codeChecker.markers = << "@code" >>
    /\ rw.codeChecker.lineOfCode = "True"
    /\ rw.codeChecker.at = "start"

\* the @code and @endcode tokens of the pending lines
PendingMarkers(pending) == Occurrences(pending, "@code") + Occurrences(pending, "@endcode")

\* C24: in a pass that sends a line to a Code/Prose Detector instance, the
\* instance writes a close marker or clears its in-code flag only if the
\* flag was set and the text under test failed to compile with SyntaxError
\* (lineOfCode False); when the outcome is ambiguous (the text under test is
\* empty, an ellipsis, a traceback or error remnant, or an incomplete
\* statement, or the compile ended in another exception) the instance asks
\* for another line, writes no marker and keeps its flag.
C24_ClosesOnlyOnNotCode ==
    [][(LinePass /\ Sender \in {"codeChecker", "proseChecker"}) =>
        LET old == rw[Sender]
            new == rw'[Sender]
            closed == \/ old.inCodeBlock /\ ~new.inCodeBlock
                      \/ Len(new.markers) > Len(old.markers)
                         /\ new.markers[Len(new.markers)] = "@endcode"
            ambiguous == \/ new.testLine = << >>
                         \/ new.testLine = << "..." >>
                         \/ ErrorLine(new.testLine)
                         \/ compile_command(new.testLine) = "incomplete"
        IN  /\ closed =>
                  /\ old.inCodeBlock
                  /\ ~new.inCodeBlock
                  /\ new.lineOfCode = "False"
                  /\ compile_command(new.testLine) = "SyntaxError"
                  /\ new.markers = Append(old.markers, "@endcode")
            /\ (ambiguous /\ ~PromptLine(LineInHand)) => new.lineOfCode = "None"
            /\ new.lineOfCode = "None" =>
                  /\ pc' # "crashed"
                  /\ new.at \in {"ambiguous", "more"}
                  /\ new.inCodeBlock = old.inCodeBlock
                  /\ new.markers = old.markers
                  /\ PendingMarkers(SubSeq(rw'.lines, 1, Len(rw.lines)))
                        = PendingMarkers(rw.lines)
      ]_vars

\* inside an open code block an empty line was skipped and the prose line
\* after it made the instance looking for the end of code write its marker
C24_Witness ==
    /\ pc = "done"
    /\ inLines = << ReturnsL, BlankL, ExamplesL, BlankL, ProseL >>
    /\ roles = << "returns", "codeChecker", "examples", "proseChecker", "proseChecker" >>
    /\ rw.proseChecker.markers = << "@endcode" >>
    /\ ~rw.proseChecker.inCodeBlock
    /\ rw.proseChecker.lineOfCode = "False"

\* C25: in a pass in which a Code/Prose Detector instance has a marker to
\* write (it classified the text as code with its flag not set, or as not
\* code with its flag set), the write does not fail, the anchor index
\* currentLineNum is at least 0 and less than the number of pending lines the
\* instance was handed, and the marker is written at the end of the pending
\* line at that index.
C25_MarkerAnchor ==
    [][(LinePass /\ Sender \in {"codeChecker", "proseChecker"}) =>
        LET old == rw[Sender]
            new == rw'[Sender]
            \* a single-line tag empties the pending list before the hand-over
            handed == IF SingleLineMatch(LineInHand) THEN 0 ELSE Len(rw.lines)
            open == ~old.inCodeBlock /\ new.lineOfCode = "True"
            close == old.inCodeBlock /\ new.lineOfCode = "False"
        IN  (open \/ close) =>
                /\ pc' # "crashed"
                /\ new.currentLineNum >= 0
                /\ new.currentLineNum < handed
                /\ IsSuffixOf(IF open THEN CodeMarker ELSE EndCodeMarker,
                              rw'.lines[new.currentLineNum + 1])
      ]_vars

\* the markers follow one another in turn, beginning with first
TakesTurns(ms, first) ==
    \A i \in 1..Len(ms) :
        ms[i] = IF (i % 2 = 1) = (first = "@code") THEN "@code" ELSE "@endcode"

\* C29: the markers written by one Code/Prose Detector instance alternate
\* between @code and @endcode, beginning with @code for the instance created
\* with its flag not set and with @endcode for the one created with its flag
\* set; the flag of an instance tells which marker it wrote last; a pass of
\* the Rewriter makes an instance write at most one marker, and only the
\* instance it sent the line to.
C29_MarkerAlternation ==
    [][/\ TakesTurns(rw'.codeChecker.markers, "@code")
       /\ TakesTurns(rw'.proseChecker.markers, "@endcode")
       /\ rw'.codeChecker.inCodeBlock = (Len(rw'.codeChecker.markers) % 2 = 1)
       /\ rw'.proseChecker.inCodeBlock = (Len(rw'.proseChecker.markers) % 2 = 0)
       /\ \A k \in {"codeChecker", "proseChecker"} :
             /\ Len(rw'[k].markers) <= Len(rw[k].markers) + 1
             /\ SubSeq(rw'[k].markers, 1, Len(rw[k].markers)) = rw[k].markers
             /\ rw'[k].markers # rw[k].markers => LinePass /\ Sender = k
      ]_vars

C29_Witness ==
    /\ pc = "done"
    /\ inLines = << ReturnsL, PromptL, ProseL >>
    /\ rw.codeChecker.markers = << "@code", "@endcode" >>
    /\ ~rw.codeChecker.inCodeBlock

\* the entry a line of the block becomes when nothing is classified: the
\* comment marker (doubled on the first line), the line without its trailing
\* whitespace and, on the last line, the tail as a comment line of its own,
\* no space left before a line break
PlainEntry(i) ==
    LET text == IF tail # << >> /\ i = Len(inLines)
                THEN RStrip(RStrip(inLines[i]) \o << linesep, "#", " " >> \o tail)
                ELSE RStrip(inLines[i])
    IN  ReplaceSpaceNewline((IF i = 1 THEN << "#", "#" >> ELSE << "#" >>) \o text)

\* C28: with autobrief off, whether autocode is on or off, no line is
\* classified, neither Code/Prose Detector instance is sent a line, no @code
\* or @endcode is written, and the rewritten block is a function of the
\* block and its tail alone: one plain entry per line.
C28_AutocodeInert ==
    ~options.autobrief =>
        /\ pc # "crashed"
        /\ \A i \in 1..Len(roles) : roles[i] = "plain"
        /\ rw.codeChecker = NewChecker(FALSE)
        /\ rw.proseChecker = NewChecker(TRUE)
        /\ CodeMarkers(docLines) = << >>
        /\ CodeMarkers(rw.lines) = << >>
        /\ pc \in {"rewritten", "briefed"} =>
              docLines = [i \in 1..Len(inLines) |-> PlainEntry(i)]
        /\ pc = "done" =>
              docLines = [i \in 1..Len(inLines) |->
                              NewlineSub(IndentStr(defLines[1]), PlainEntry(i), TRUE)]

C28_Witness ==
    /\ ~options.autobrief
    /\ options.autocode
    /\ pc = "done"
    /\ inLines = << ReturnsL, PromptL >>
    /\ docLines = << << Ind, "#", "#", Ind, "Returns:" >>,
                     << Ind, "#", Ind, Ind, ">>> ", "f(1)" >> >>

\* C30: with autobrief on, the loop that rotates the leading blank entries of
\* a rewritten block ends after as many iterations as the block has leading
\* blank entries, which is at most its number of entries, also when every
\* entry is blank; the entries after the leading blank ones come first,
\* unchanged and in their order, blank entries fill the end, and the number
\* of entries stays the same. The brief marker is then set on that block.
C30_RotationTerminates ==
    [][(pc = "rewritten" /\ pc' = "briefed" /\ options.autobrief) =>
        LET rot == Rotation(docLines, 0)
            r == rot.docLines
            n == Len(docLines)
            k == LeadingBlank(docLines)
        IN  /\ rot.safetyCounter = k
            /\ rot.safetyCounter <= n
            /\ Len(r) = n
            /\ \A i \in 1..(n - k) : r[i] = docLines[k + i]
            /\ \A i \in (n - k + 1)..n : FullyBlank(r[i])
            /\ docLines' = IF BriefApplies(r) THEN AddBrief(r) ELSE r
      ]_vars

C30_Witness ==
    /\ options.autobrief
    /\ pc = "briefed"
    /\ inLines = << BlankL, ArgsL >>
    /\ LeadingBlank(<< << "#", "#" >>, << "#" >> >>) = 2
    /\ docLines = << << "#", "#", " ", "@brief", " " >>, << >> >>

(***************************************************************************)
(* SpecWriter: the Block Writer AstWalker.__writeDocstring applied to one  *)
(* batch.  inLines keeps the block as it was before, batches the batch as  *)
(* it was received.                                                        *)
(***************************************************************************)
Entries == {<< "a" >>, << "b" >>}

WriterBlocks == SeqsUpTo(Entries, MaxBatch) \ {<< >>}

\* a batch addresses entries of the block: 0 <= firstLineNum <= lastLineNum < len
BatchesFor(dl) ==
    {[firstLineNum |-> f, lastLineNum |-> l, lines |-> lns] :
        f \in 0..(Len(dl) - 1), l \in 0..(Len(dl) - 1),
        lns \in SeqsUpTo({<< "#", "x" >>, << "#", "y" >>}, MaxBatch)}

InitWriter ==
    /\ options \in {o \in OptionSets : o.autobrief /\ o.autocode}
    /\ docLines \in WriterBlocks
    /\ inLines = docLines
    /\ batch \in {b \in BatchesFor(docLines) : b.firstLineNum <= b.lastLineNum}
    /\ batches = << batch >>
    /\ tail = << >>
    /\ defLines = << >>
    /\ rw = NewRewriter
    /\ roles = << >>
    /\ pc = "write"
    /\ name = Idle.name
    /\ restrictionLevel = Idle.restrictionLevel
    /\ lines = Idle.lines
    /\ tree = Idle.tree
    /\ cursor = Idle.cursor
    /\ containingNodes = Idle.containingNodes
    /\ visited = Idle.visited
    /\ output = Idle.output

\* lines 324-329: one batch received; the list handed in is padded in place
WriteBatch ==
    /\ pc = "write"
    /\ docLines' = WriteDocstring(docLines, batch.firstLineNum, batch.lastLineNum,
                                  batch.lines)
    /\ batch' = [batch EXCEPT
                    !.lines = PadLines(@, batch.lastLineNum - batch.firstLineNum + 1)]
    /\ pc' = "written"
    /\ UNCHANGED << options, tail, rw, defLines, inLines, roles, batches, name,
                    restrictionLevel, lines, tree, cursor, containingNodes, visited,
                    output >>

NextWriter == WriteBatch

SpecWriter == InitWriter /\ [][NextWriter]_vars

Span(b) == b.lastLineNum - b.firstLineNum + 1

\* C3: after the Block Writer applied a batch (first, last, lines): lines has
\* been padded with empty strings up to last-first+1 entries (and is otherwise
\* as received); the padded lines stand in the block from position first on;
\* the entries before first and the entries after last are the ones the block
\* had before, in order; and the block has no fewer entries than before.
C3_WriterApply ==
    pc = "written" =>
        LET got == batches[1]
            f == got.firstLineNum
            l == got.lastLineNum
            n == IF Len(got.lines) < Span(got) THEN Span(got) ELSE Len(got.lines)
        IN  /\ Len(batch.lines) = n
            /\ \A i \in 1..n :
                  batch.lines[i] = IF i <= Len(got.lines) THEN got.lines[i] ELSE << >>
            /\ Len(docLines) = Len(inLines) - Span(got) + n
            /\ \A i \in 1..n : docLines[f + i] = batch.lines[i]
            /\ \A i \in 1..f : docLines[i] = inLines[i]
            /\ \A i \in 1..(Len(inLines) - l - 1) :
                  docLines[Len(docLines) + 1 - i] = inLines[Len(inLines) + 1 - i]
            /\ Len(docLines) >= Len(inLines)

C3_Witness ==
    /\ pc = "written"
    /\ Len(inLines) = 3
    /\ batches[1].firstLineNum = 1
    /\ batches[1].lastLineNum = 2
    /\ batches[1].lines = << << "#", "x" >> >>
    /\ docLines = << inLines[1], << "#", "x" >>, << >> >>

(***************************************************************************)
(* SpecMember: the visibility classification AstWalker._checkMemberName    *)
(* and the tag AstWalker._processMembers builds from it.                   *)
(***************************************************************************)
Names == {n \in SeqsUpTo({"_", "a"}, MaxNameLen) : n # << >>}

\* name.startswith / name.endswith on a sequence of characters
StartsWithSeq(n, p) == IsPrefixOf(p, n)
EndsWithSeq(n, p) == Len(p) <= Len(n) /\ SubSeq(n, Len(n) - Len(p) + 1, Len(n)) = p

\* the classification testing the single underscore first
CheckMemberName_SingleFirst(n) ==
    IF ~EndsWithSeq(n, << "_", "_" >>)
    THEN IF StartsWithSeq(n, << "_" >>) THEN << "protected" >>
         ELSE IF StartsWithSeq(n, << "_", "_" >>) THEN << "private" >>
         ELSE None
    ELSE None

\* doxypypy.py lines 474-480
CheckMemberName(n) ==
    IF ~EndsWithSeq(n, << "_", "_" >>)
    THEN IF StartsWithSeq(n, << "_", "_" >>) THEN << "private" >>
         ELSE IF StartsWithSeq(n, << "_" >>) THEN << "protected" >>
         ELSE None
    ELSE None

\* doxypypy.py lines 489-496
ProcessMembers(n, contextTag) ==
    LET level == CheckMemberName(n)
    IN  IF level # None
        THEN contextTag \o << linesep, "#", " ", "@" \o level[1] >>
        ELSE contextTag

ContextTags == {<< >>, << "@namespace", " ", "pkg.mod", ".", "f" >>}

InitMember ==
    /\ options \in {o \in OptionSets : o.autobrief /\ o.autocode}
    /\ name \in Names
    /\ restrictionLevel = None
    /\ tail \in ContextTags
    /\ pc = "member"
    /\ docLines = << >>
    /\ inLines = << >>
    /\ defLines = << >>
    /\ rw = NewRewriter
    /\ roles = << >>
    /\ batches = << >>
    /\ batch = Idle.batch
    /\ lines = Idle.lines
    /\ tree = Idle.tree
    /\ cursor = Idle.cursor
    /\ containingNodes = Idle.containingNodes
    /\ visited = Idle.visited
    /\ output = Idle.output

\* _processMembers(node, contextTag): the tag becomes the trailing annotation
CheckMember ==
    /\ pc = "member"
    /\ restrictionLevel' = CheckMemberName(name)
    /\ tail' = ProcessMembers(name, tail)
    /\ pc' = "checked"
    /\ UNCHANGED << options, rw, docLines, defLines, inLines, roles, batches, lines, tree,
                    cursor, containingNodes, visited, output, name, batch >>

NextMember == CheckMember

SpecMember == InitMember /\ [][NextMember]_vars

\* the number of underscores the name begins with
LeadingUnderscores(n) ==
    CHOOSE k \in 0..Len(n) :
        /\ \A i \in 1..k : n[i] = "_"
        /\ k = Len(n) \/ n[k + 1] # "_"

EndsInTwoUnderscores(n) == Len(n) >= 2 /\ n[Len(n)] = "_" /\ n[Len(n) - 1] = "_"

\* C4: the classification of a name is protected when the name begins with
\* exactly one underscore and does not end in two underscores, private when
\* it begins with two underscores and does not end in two underscores, and
\* no tag when it ends in two underscores or has no leading underscore.
C4_Visibility ==
    pc = "checked" =>
        /\ (LeadingUnderscores(name) = 1 /\ ~EndsInTwoUnderscores(name))
              => restrictionLevel = << "protected" >>
        /\ (LeadingUnderscores(name) >= 2 /\ ~EndsInTwoUnderscores(name))
              => restrictionLevel = << "private" >>
        /\ (EndsInTwoUnderscores(name) \/ LeadingUnderscores(name) = 0)
              => restrictionLevel = None

C4_Witness ==
    /\ pc = "checked"
    /\ name = << "_", "_", "a", "_" >>
    /\ restrictionLevel = << "private" >>
    /\ tail = << linesep, "#", " ", "@private" >>

(***************************************************************************)
(* AstWalker._processDocstring on the Source Buffer: the bounds of the     *)
(* block, the rewriting, the pass statement of interface definitions, the  *)
(* hoisting of attribute lines, the splice.  Line numbers are the 1-based  *)
(* node.lineno; a Containment Path entry is a record (name, kind).         *)
(***************************************************************************)
Q3 == "\"\"\""

\* main(), lines 575-582: the module path, cut at the top-level namespace
fullPathNamespace == "pkg.mod"

\* _docstrMarkerRE.match(line): whitespace, then the marker
MarkerMatch(line) == LET i == SkipWs(line, 1) IN i <= Len(line) /\ line[i] = Q3

\* _docstrOneLineRE.match(line): the marker, some text, the marker again
OneLineMatch(line) ==
    LET i == SkipWs(line, 1)
    IN  /\ i <= Len(line)
        /\ line[i] = Q3
        /\ \E j \in (i + 2)..Len(line) :
              line[j] = Q3 /\ \A k \in (i + 1)..(j - 1) : line[k] # linesep

\* _docstrMarkerRE.sub('', line): every marker goes, with the whitespace
\* before it (no token of the lines modelled ends in a string prefix letter)
RECURSIVE MarkerSub(_)
MarkerSub(line) ==
    IF line = << >> THEN << >>
    ELSE LET front == SubSeq(line, 1, Len(line) - 1) IN
         IF line[Len(line)] = Q3 THEN MarkerSub(RStrip(front))
         ELSE Append(MarkerSub(front), line[Len(line)])

HasMarker(line) == Contains(line, Q3)

\* lines 345-350: the first index k >= from where the marker starts the line,
\* or Len(lns) + 1
RECURSIVE FirstMarkerMatch(_, _)
FirstMarkerMatch(lns, from) ==
    IF from > Len(lns) THEN Len(lns) + 1
    ELSE IF MarkerMatch(lns[from]) THEN from
    ELSE FirstMarkerMatch(lns, from + 1)

\* lines 356-360: the first index k >= from of a line holding the marker, or
\* Len(lns) + 1
RECURSIVE FirstHasMarker(_, _)
FirstHasMarker(lns, from) ==
    IF from > Len(lns) THEN Len(lns) + 1
    ELSE IF HasMarker(lns[from]) THEN from
    ELSE FirstHasMarker(lns, from + 1)

\* lines 340-361: docstringStart and the last line of the block (1-based)
DocstringStart(lns, lineno) == FirstMarkerMatch(lns, lineno)

DocstringEnd(lns, lineno) ==
    LET ds == DocstringStart(lns, lineno)
        line == IF ds <= Len(lns) THEN lns[ds] ELSE << >>
    IN  IF OneLineMatch(line) THEN ds ELSE FirstHasMarker(lns, ds + 1)

\* lines 371-374
StripMarkers(dl) ==
    IF dl = << >> THEN dl
    ELSE LET d1 == [dl EXCEPT ![1] = MarkerSub(@)]
         IN  [d1 EXCEPT ![Len(d1)] = MarkerSub(@)]

\* _getFullPathName
GetFullPathName(containing) ==
    << [name |-> << fullPathNamespace >>, kind |-> "module"] >> \o containing

\* '.'.join(pathTuple[0] for pathTuple in fullPathNamespace)
RECURSIVE JoinPath(_)
JoinPath(path) ==
    IF path = << >> THEN << >>
    ELSE IF Len(path) = 1 THEN path[1].name
    ELSE path[1].name \o << "." >> \o JoinPath(Tail(path))

\* '@property\t' in line
HasProperty(entry) ==
    \E i \in 1..(Len(entry) - 1) : entry[i] = "@property" /\ entry[i + 1] = "\t"

\* str.find(pat): the 1-based position of the first occurrence, or 0
FindSeq(str, pat) ==
    LET hits == {i \in 1..(Len(str) - Len(pat) + 1) : SubSeq(str, i, i + Len(pat) - 1) = pat}
    IN  IF hits = {} THEN 0 ELSE CHOOSE i \in hits : \A j \in hits : i <= j

\* str.replace(linesep, linesep + indentStr)
RECURSIVE IndentAfterLinesep(_, _)
IndentAfterLinesep(str, indentStr) ==
    IF str = << >> THEN << >>
    ELSE (IF str[1] = linesep THEN << linesep >> \o indentStr ELSE << str[1] >>)
         \o IndentAfterLinesep(Tail(str), indentStr)

\* lines 435-440: the indentation of the first indented line from k on
RECURSIVE HoistIndent(_, _)
HoistIndent(lns, k) ==
    IF k > Len(lns) THEN << >>
    ELSE IF IndentStr(lns[k]) # << >> THEN IndentStr(lns[k])
    ELSE HoistIndent(lns, k + 1)

\* lines 419-420: the pass statement below the declaration
InsertPass(dl, decl, indentStr) ==
    IF decl = << >> THEN [docLines |-> dl, defLines |-> decl, crashed |-> TRUE]
    ELSE [docLines |-> dl,
          defLines |-> [decl EXCEPT ![Len(decl)] = @ \o << linesep >> \o indentStr \o << "pass" >>],
          crashed |-> FALSE]

\* lines 424-452: the attribute lines of a class move below its declaration
HoistProperties(dl, decl, lns, endLineNum) ==
    IF dl = << >> THEN [docLines |-> dl, defLines |-> decl, crashed |-> TRUE]
    ELSE
    LET props == {i \in 1..Len(dl) : HasProperty(dl[i])}
    IN  IF props = {} THEN [docLines |-> dl, defLines |-> decl, crashed |-> FALSE]
        ELSE
        LET firstVar == CHOOSE i \in props : \A j \in props : i <= j
            lastVar == CHOOSE i \in props : \A j \in props : j <= i
            indentStr == HoistIndent(lns, endLineNum + 1)
            varLines == [k \in 1..(lastVar - firstVar + 1) |->
                           IndentAfterLinesep(<< linesep >> \o dl[firstVar + k - 1], indentStr)]
            decl2 == decl \o varLines
            rest == SubSeq(dl, 1, firstVar - 1) \o SubSeq(dl, lastVar + 1, Len(dl))
            final == decl2[Len(decl2)]
            loc == FindSeq(final, << linesep, "#", " ", "@namespace" >>)
        IN  IF loc = 0 THEN [docLines |-> rest, defLines |-> decl2, crashed |-> FALSE]
            ELSE IF rest = << >> THEN [docLines |-> rest, defLines |-> decl2, crashed |-> TRUE]
            ELSE [docLines |-> [rest EXCEPT ![Len(rest)] = @ \o SubSeq(final, loc, Len(final))],
                  defLines |-> [decl2 EXCEPT ![Len(decl2)] = SubSeq(final, 1, loc - 1)],
                  crashed |-> FALSE]

\* lines 340-366: the bounds of the block (1-based), the declaration lines
\* above it and its raw lines
Bounds(lns, lineno) ==
    LET ds == DocstringStart(lns, lineno)
        last == DocstringEnd(lns, lineno)
    IN  [docstringStart |-> ds, endLineNum |-> last,
         defLines |-> SubSeq(lns, lineno, ds - 1),
         docLines |-> SubSeq(lns, ds, IF last <= Len(lns) THEN last ELSE Len(lns))]

\* lines 457-458: the lines of the slice self.lines[startLineNum: endLineNum]
\* that the visit of the definition at lineno assigns to (1-based)
Region(lns, lineno) ==
    LET last == Bounds(lns, lineno).endLineNum
    IN  [first |-> lineno, last |-> IF last <= Len(lns) THEN last ELSE Len(lns)]

\* lines 382-403 on the outcome rb of the rewriting
PostPass(rb, decl) ==
    [docLines |-> IF rb.crashed THEN rb.docLines
                  ELSE IndentPass(BriefPass(rb.docLines), decl),
     defLines |-> decl, crashed |-> rb.crashed]

\* a relocation that puts the pass statement below interface members only
Relocate_MembersOnly(lns, typeName, b, containing, pp) ==
    LET indentStr == IF b.docstringStart <= Len(lns) THEN IndentStr(lns[b.docstringStart])
                     ELSE << >>
        path == GetFullPathName(containing)
        parentType == path[Len(path) - 1].kind
    IN  IF pp.crashed THEN pp
        ELSE IF parentType = "interface" /\ typeName = "FunctionDef"
        THEN InsertPass(pp.docLines, pp.defLines, indentStr)
        ELSE IF options.autobrief /\ typeName = "ClassDef"
        THEN HoistProperties(pp.docLines, pp.defLines, lns, b.endLineNum)
        ELSE pp

\* lines 408-452 on the outcome pp of the post-pass
Relocate(lns, typeName, b, containing, pp) ==
    LET indentStr == IF b.docstringStart <= Len(lns) THEN IndentStr(lns[b.docstringStart])
                     ELSE << >>
        path == GetFullPathName(containing)
        parentType == path[Len(path) - 1].kind
    IN  IF pp.crashed THEN pp
        ELSE IF \/ parentType = "interface" /\ typeName = "FunctionDef"
                \/ path[Len(path)].kind = "interface"
        THEN InsertPass(pp.docLines, pp.defLines, indentStr)
        ELSE IF options.autobrief /\ typeName = "ClassDef"
        THEN HoistProperties(pp.docLines, pp.defLines, lns, b.endLineNum)
        ELSE pp

\* lines 457-458 on the outcome m of the relocation
Splice(lns, lineno, b, m) ==
    [lines |-> IF m.crashed THEN lns
               ELSE SliceAssign(lns, lineno - 1, b.endLineNum - 1, m.docLines \o m.defLines),
     docLines |-> m.docLines, defLines |-> m.defLines, crashed |-> m.crashed]

ProcessBlock(lns, typeName, lineno, tl, containing, b) ==
    Splice(lns, lineno, b,
           Relocate(lns, typeName, b, containing,
                    PostPass(RewriteBlock(StripMarkers(b.docLines), tl), b.defLines)))

\* lines 331-460, for a class or a function
ProcessDocstring(lns, typeName, lineno, tl, containing) ==
    ProcessBlock(lns, typeName, lineno, tl, containing, Bounds(lns, lineno))

(***************************************************************************)
(* SpecWalker: AstVisit walking the class and function definitions of a    *)
(* module in source order.  tree lists the definitions in source order,    *)
(* each with its nesting depth; lines is the source text they stand for.   *)
(***************************************************************************)
InterfaceBases ==
    {"Interface", "interface", "zope.Interface", "interface.Interface",
     "zope.interface.Interface"}

\* the first index k >= from of a whitespace token or "(", or Len(line) + 1
RECURSIVE NameEnd(_, _)
NameEnd(line, from) ==
    IF from > Len(line) THEN from
    ELSE IF line[from] \in Whitespace \cup {"("} THEN from
    ELSE NameEnd(line, from + 1)

\* _interfaceRE.match(line), with group(1)
InterfaceMatch(line) ==
    LET i == SkipWs(line, 1)
        j == SkipWs(line, i + 1)
        k == NameEnd(line, j)
        open == SkipWs(line, k)
        base == SkipWs(line, open + 1)
        close == SkipWs(line, base + 1)
        colon == SkipWs(line, close + 1)
        ok == /\ colon <= Len(line)
              /\ line[i] = "class"
              /\ j > i + 1
              /\ k > j
              /\ line[open] = "("
              /\ line[base] \in InterfaceBases
              /\ line[close] = ")"
              /\ line[colon] = ":"
    IN  [ok |-> ok, name |-> IF ok THEN SubSeq(line, j, k - 1) ELSE << >>]

IndentOf(depth) == [i \in 1..depth |-> Ind]

NodeNames == {<< "A" >>, << "_", "b" >>, << "_", "_", "c" >>}

Docs == {"none", "one", "multi", "attrs"}

NodeShapes ==
    {sh \in [type : {"ClassDef", "FunctionDef"}, name : NodeNames, doc : Docs,
             iface : BOOLEAN, depth : 0..(MaxNodes - 1)] :
        sh.type = "FunctionDef" => ~sh.iface}

WellNested(q) ==
    /\ q[1].depth = 0
    /\ \A i \in 2..Len(q) : q[i].depth <= q[i - 1].depth + 1

\* the declaration line of a definition
DeclLine(sh) ==
    IndentOf(sh.depth) \o
    (IF sh.type = "FunctionDef" THEN << "def", " " >> \o sh.name \o << "(", ")", ":", linesep >>
     ELSE << "class", " " >> \o sh.name \o
          << "(", IF sh.iface THEN "Interface" ELSE "object", ")", ":", linesep >>)

\* the lines of its documentation string
DocOf(sh) ==
    LET ind == IndentOf(sh.depth + 1) IN
    IF sh.doc = "one" THEN << ind \o << Q3, "Some", " ", "prose.", Q3, linesep >> >>
    ELSE IF sh.doc = "multi"
    THEN << ind \o << Q3, "Some", " ", "prose.", linesep >>, BlankL, AttrsL, PairL,
            ind \o << Q3, linesep >> >>
    ELSE IF sh.doc = "attrs"
    THEN << ind \o << Q3, "Some", " ", "prose.", linesep >>, BlankL, AttrsL, PairL, ProseL,
            SubSeq(PairL, 1, Len(PairL) - 1) \o << Q3, linesep >> >>
    ELSE IF sh.doc = "plain"
    THEN << ind \o << "\"", "Some", " ", "prose.", "\"", linesep >> >>
    ELSE << >>

\* a definition without a documentation string and without a nested
\* definition has a pass statement for its body
NodeText(q, i) ==
    << DeclLine(q[i]) >> \o DocOf(q[i]) \o
    (IF q[i].doc = "none" /\ (i = Len(q) \/ q[i + 1].depth <= q[i].depth)
     THEN << IndentOf(q[i].depth + 1) \o << "pass", linesep >> >>
     ELSE << >>)

RECURSIVE SourceUpTo(_, _)
SourceUpTo(q, n) == IF n = 0 THEN << >> ELSE SourceUpTo(q, n - 1) \o NodeText(q, n)

\* the syntax tree of the text: every definition with its node.lineno
Parse(q) ==
    [i \in 1..Len(q) |->
        [type |-> q[i].type, name |-> q[i].name, depth |-> q[i].depth,
         lineno |-> Len(SourceUpTo(q, i - 1)) + 1, hasDoc |-> q[i].doc # "none"]]

Trees == UNION {{q \in [1..n -> NodeShapes] : WellNested(q)} : n \in 1..MaxNodes}

WalkerOptionSets ==
    [autobrief : BOOLEAN, autocode : {TRUE}, tablength : {4}, topLevelNamespace : {"", "pkg"}]

InitWalker ==
    /\ options \in WalkerOptionSets
    /\ \E q \in Trees : tree = Parse(q) /\ lines = SourceUpTo(q, Len(q))
    /\ cursor = 0
    /\ containingNodes = << >>
    /\ visited = << >>
    /\ output = None
    /\ tail = << >>
    /\ docLines = << >>
    /\ defLines = << >>
    /\ inLines = lines
    /\ rw = NewRewriter
    /\ roles = << >>
    /\ batches = << >>
    /\ pc = "module"
    /\ name = Idle.name
    /\ restrictionLevel = Idle.restrictionLevel
    /\ batch = Idle.batch

walkerIdle == << rw, inLines, roles, batches, name, restrictionLevel, batch >>

\* visit_Module: the modules modelled start with a definition, get_docstring
\* finds nothing, the definitions are visited in turn
VisitModule ==
    /\ pc = "module"
    /\ pc' = "walk"
    /\ UNCHANGED << options, tail, docLines, defLines, lines, tree, cursor, containingNodes,
                    visited, output, walkerIdle >>

\* the next definition in source order is a child or a sibling of the path's end
AtNode(type) ==
    /\ pc = "walk"
    /\ cursor < Len(tree)
    /\ tree[cursor + 1].type = type
    /\ tree[cursor + 1].depth = Len(containingNodes)

\* the outcome r of _processDocstring: an IndexError ends the run
Processed(r) ==
    /\ lines' = r.lines
    /\ docLines' = r.docLines
    /\ defLines' = r.defLines
    /\ pc' = IF r.crashed THEN "crashed" ELSE "walk"

\* a visit that hands every definition to _processDocstring, documented or not
Descend_Always(node, path, tl) ==
    /\ Processed(ProcessDocstring(lines, node.type, node.lineno, tl, path))
    /\ tail' = tl
    /\ containingNodes' = path
    /\ cursor' = cursor + 1
    /\ visited' = Append(visited, [node |-> cursor + 1, path |-> path, tail |-> tl,
                                   region |-> Region(lines, node.lineno)])
    /\ UNCHANGED << options, tree, output, walkerIdle >>

\* what a visit does once the path and the tail are computed: lines 166-168
\* and 214-216, then the descent
Descend(node, path, tl) ==
    /\ IF node.hasDoc
       THEN Processed(ProcessDocstring(lines, node.type, node.lineno, tl, path))
       ELSE UNCHANGED << lines, docLines, defLines, pc >>
    /\ tail' = tl
    /\ containingNodes' = path
    /\ cursor' = cursor + 1
    /\ visited' = Append(visited, [node |-> cursor + 1, path |-> path, tail |-> tl,
                                   region |-> IF node.hasDoc THEN Region(lines, node.lineno)
                                              ELSE [first |-> 1, last |-> 0]])
    /\ UNCHANGED << options, tree, output, walkerIdle >>

\* visit_FunctionDef, lines 157-170
VisitFunctionDef ==
    /\ AtNode("FunctionDef")
    /\ LET node == tree[cursor + 1]
           path == Append(containingNodes, [name |-> node.name, kind |-> "function"])
           contextTag == JoinPath(GetFullPathName(path))
           tl == IF options.topLevelNamespace # ""
                 THEN << "@namespace", " " >> \o ProcessMembers(node.name, contextTag)
                 ELSE ProcessMembers(node.name, << >>)
       IN  Descend(node, path, tl)

\* a visit that takes every class for an ordinary class
VisitClassDef_NoInterface ==
    /\ AtNode("ClassDef")
    /\ LET node == tree[cursor + 1]
           path == Append(containingNodes, [name |-> node.name, kind |-> "class"])
           tl == IF options.topLevelNamespace # ""
                 THEN << "@namespace", " " >> \o JoinPath(GetFullPathName(path))
                 ELSE << >>
       IN  Descend(node, path, ProcessMembers(node.name, tl))

\* visit_ClassDef, lines 184-218
VisitClassDef ==
    /\ AtNode("ClassDef")
    /\ LET node == tree[cursor + 1]
           match == InterfaceMatch(lines[node.lineno])
           path == Append(containingNodes,
                          [name |-> node.name,
                           kind |-> IF match.ok THEN "interface" ELSE "class"])
           tl == IF options.topLevelNamespace # ""
                 THEN << "@namespace", " " >> \o JoinPath(GetFullPathName(path))
                 ELSE << >>
           contextTag == IF match.ok
                         THEN tl \o << linesep, "#", " ", "@interface", " " >> \o match.name
                         ELSE tl
       IN  Descend(node, path, ProcessMembers(node.name, contextTag))

\* a visit that pops the outermost entry of the path on its way out
Leave_PopFirst ==
    /\ pc = "walk"
    /\ containingNodes # << >>
    /\ IF cursor = Len(tree) THEN TRUE ELSE tree[cursor + 1].depth < Len(containingNodes)
    /\ containingNodes' = Tail(containingNodes)
    /\ UNCHANGED << options, tail, docLines, defLines, lines, tree, cursor, visited, output,
                    pc, walkerIdle >>

\* containingNodes.pop(), lines 172 and 220: the definitions nested in the
\* path's end have all been visited
Leave ==
    /\ pc = "walk"
    /\ containingNodes # << >>
    /\ IF cursor = Len(tree) THEN TRUE ELSE tree[cursor + 1].depth < Len(containingNodes)
    /\ containingNodes' = SubSeq(containingNodes, 1, Len(containingNodes) - 1)
    /\ UNCHANGED << options, tail, docLines, defLines, lines, tree, cursor, visited, output,
                    pc, walkerIdle >>

\* linesep.join(line.rstrip() for line in self.lines)
RECURSIVE JoinLines(_)
JoinLines(lns) ==
    IF lns = << >> THEN << >>
    ELSE IF Len(lns) = 1 THEN RStrip(lns[1])
    ELSE RStrip(lns[1]) \o << linesep >> \o JoinLines(Tail(lns))

\* getLines, once parseLines has returned
GetLines ==
    /\ pc = "walk"
    /\ cursor = Len(tree)
    /\ containingNodes = << >>
    /\ output' = JoinLines(lines)
    /\ pc' = "printed"
    /\ UNCHANGED << options, tail, docLines, defLines, lines, tree, cursor, containingNodes,
                    visited, walkerIdle >>

NextWalker == VisitModule \/ VisitFunctionDef \/ VisitClassDef \/ Leave \/ GetLines

SpecWalker == InitWalker /\ [][NextWalker]_vars

\* the same walk over modules whose documentation strings may also stand in
\* single quotes
SourceShapes ==
    {sh \in [type : {"ClassDef", "FunctionDef"}, name : NodeNames, doc : Docs \cup {"plain"},
             iface : BOOLEAN, depth : 0..(MaxNodes - 1)] :
        sh.type = "FunctionDef" => ~sh.iface}

SourceTrees == UNION {{q \in [1..n -> SourceShapes] : WellNested(q)} : n \in 1..MaxNodes}

InitSource ==
    /\ options \in WalkerOptionSets
    /\ \E q \in SourceTrees : tree = Parse(q) /\ lines = SourceUpTo(q, Len(q))
    /\ cursor = 0
    /\ containingNodes = << >>
    /\ visited = << >>
    /\ output = None
    /\ tail = << >>
    /\ docLines = << >>
    /\ defLines = << >>
    /\ inLines = lines
    /\ rw = NewRewriter
    /\ roles = << >>
    /\ batches = << >>
    /\ pc = "module"
    /\ name = Idle.name
    /\ restrictionLevel = Idle.restrictionLevel
    /\ batch = Idle.batch

SpecSource == InitSource /\ [][NextWalker]_vars

(***************************************************************************)
(* Properties of the walker, checked under SpecWalker.  The i-th entry of  *)
(* visited belongs to the i-th definition of tree.                         *)
(***************************************************************************)
Holds(str, pat) == FindSeq(str, pat) # 0

VisibilityDirective(n) == << "#", " ", "@" \o CheckMemberName(n)[1] >>

NamespaceDirective(path) == << "@namespace", " " >> \o JoinPath(GetFullPathName(path))

Undocumented(i) == ~tree[i].hasDoc

\* C5 as stated: once the module is printed, every definition without a
\* documentation string has its visibility directive (when its name is not
\* public) and its namespace directive (when a namespace root is configured)
\* in the output.
C5_AnnotationsWithoutDocstring ==
    pc = "printed" =>
        \A i \in 1..Len(tree) :
            Undocumented(i) =>
                /\ CheckMemberName(tree[i].name) # None
                      => Holds(output, VisibilityDirective(tree[i].name))
                /\ options.topLevelNamespace # ""
                      => Holds(output, NamespaceDirective(visited[i].path))

\* C5, amended: the visit of a definition without a documentation string
\* computes its structural annotations (the visibility directive of a
\* non-public name, the namespace directive under a configured namespace
\* root) but leaves the Source Buffer as it is: nothing is rewritten and
\* nothing is emitted for it.
C5_UndocumentedLeftAlone ==
    [][(pc = "walk" /\ cursor' = cursor + 1 /\ Undocumented(cursor + 1)) =>
        LET n == tree[cursor + 1].name IN
        /\ lines' = lines
        /\ docLines' = docLines
        /\ CheckMemberName(n) # None => Holds(tail', VisibilityDirective(n))
        /\ options.topLevelNamespace # "" => Holds(tail', NamespaceDirective(containingNodes'))
      ]_vars

C5_Witness ==
    /\ pc = "printed"
    /\ options.topLevelNamespace = "pkg"
    /\ Len(tree) = 2
    /\ tree[1].hasDoc
    /\ Undocumented(2)
    /\ tree[2].name = << "_", "_", "c" >>
    /\ Holds(visited[2].tail, << "#", " ", "@private" >>)
    /\ ~Contains(output, "@private")

IsInterface(i) ==
    tree[i].type = "ClassDef" /\ InterfaceMatch(inLines[tree[i].lineno]).ok

InterfaceDirective(n) == << "#", " ", "@interface", " " >> \o n

KindOf(i) ==
    IF tree[i].type = "FunctionDef" THEN "function"
    ELSE IF IsInterface(i) THEN "interface"
    ELSE "class"

\* the definition enclosing the i-th one at nesting depth d: the last one
\* before it, in source order, at that depth
EnclosingAt(i, d) ==
    CHOOSE j \in 1..(i - 1) :
        /\ tree[j].depth = d
        /\ \A m \in (j + 1)..(i - 1) : tree[m].depth # d

\* the chain of the definitions enclosing the i-th one, outermost first,
\* followed by the i-th one itself
ChainOf(i) ==
    [k \in 1..(tree[i].depth + 1) |->
        LET j == IF k = tree[i].depth + 1 THEN i ELSE EnclosingAt(i, k - 1)
        IN  [name |-> tree[j].name, kind |-> KindOf(j)]]

Front(q) == SubSeq(q, 1, Len(q) - 1)

\* the definition whose visit a pop ends: the last one visited at the depth
\* of the path's end
Returning ==
    CHOOSE j \in 1..cursor :
        /\ tree[j].depth = Len(containingNodes) - 1
        /\ \A m \in (j + 1)..cursor : tree[m].depth # Len(containingNodes) - 1

\* C14: when a class or function is visited, the path it finds is the chain
\* of the definitions enclosing it, outermost first, and the path it is
\* processed with is that chain followed by the definition itself (the
\* synthetic module root is put before it by _getFullPathName); when a visit
\* returns, the path is again what that visit found; the walk ends with the
\* empty path.
C14_PathStackDiscipline ==
    [][/\ (cursor' = cursor + 1) =>
            /\ containingNodes = Front(ChainOf(cursor'))
            /\ containingNodes' = ChainOf(cursor')
            /\ visited'[cursor'].path = ChainOf(cursor')
            /\ options.topLevelNamespace # "" =>
                  Holds(tail', << "@namespace", " " >> \o
                               JoinPath(<< [name |-> << fullPathNamespace >>,
                                            kind |-> "module"] >> \o ChainOf(cursor')))
       /\ (cursor' = cursor /\ containingNodes' # containingNodes) =>
            /\ containingNodes = ChainOf(Returning)
            /\ containingNodes' = Front(ChainOf(Returning))
       /\ pc' = "printed" => containingNodes' = << >>
      ]_vars

C14_Witness ==
    /\ pc = "printed"
    /\ Len(tree) = 2
    /\ tree[2].depth = 1
    /\ KindOf(1) = "interface"
    /\ visited[2].path = << [name |-> tree[1].name, kind |-> "interface"],
                            [name |-> tree[2].name, kind |-> "function"] >>
    /\ tree[1].name # tree[2].name
    /\ containingNodes = << >>

\* the i-th definition is a documented function right inside an interface
InterfaceMember(i) ==
    /\ tree[i].type = "FunctionDef"
    /\ tree[i].hasDoc
    /\ tree[i].depth >= 1
    /\ KindOf(EnclosingAt(i, tree[i].depth - 1)) = "interface"

\* the i-th definition is a documented interface
DocumentedInterface(i) == tree[i].hasDoc /\ KindOf(i) = "interface"

\* the last line of the i-th definition's documentation string (a documented
\* definition of the modules modelled has nothing else in its body)
DocEnd(i) == IF i = Len(tree) THEN Len(inLines) ELSE tree[i + 1].lineno - 1

\* the visit of the i-th definition put one pass statement into the Source
\* Buffer: below the declaration, which now stands where the documentation
\* string ended, with the indentation of the documentation string
PassInserted(i) ==
    /\ Occurrences(lines', "pass") = Occurrences(lines, "pass") + 1
    /\ lines'[DocEnd(i)] = inLines[tree[i].lineno] \o << linesep >>
                              \o IndentStr(inLines[tree[i].lineno + 1]) \o << "pass" >>

DQ == "\""
Q2 == "\"\""
Quotes == {DQ, "'", Q3}

\* (?:zope\.)?(?:interface\.)?Attribute, IGNORECASE
AttributeCallees ==
    {"Attribute", "attribute", "zope.Attribute", "interface.Attribute",
     "zope.interface.Attribute"}

\* \S+ from position from: the first index at or after it that holds whitespace
RECURSIVE NonWsEnd(_, _)
NonWsEnd(line, from) ==
    IF from > Len(line) \/ line[from] \in Whitespace THEN from
    ELSE NonWsEnd(line, from + 1)

\* _attributeRE.match(line), with group(1) the indentation, group(2) the
\* target and group(3) the text between the quotes.  The opening ['\"]{1,3}
\* takes the whole opening quote token; (.*) is greedy and runs to the last
\* quote character that stands right before a ')', so it takes in all but the
\* last character of a closing Q3.
AttributeMatch(line) ==
    LET i == SkipWs(line, 1)
        e == NonWsEnd(line, i)
        eq == SkipWs(line, e)
        callee == SkipWs(line, eq + 1)
        open == SkipWs(line, callee + 1)
        q == open + 1
        closes == {c \in (q + 1)..(Len(line) - 1) : line[c] \in Quotes /\ line[c + 1] = ")"}
        ok == /\ q < Len(line)
              /\ e > i
              /\ line[eq] = "="
              /\ line[callee] \in AttributeCallees
              /\ line[open] = "("
              /\ line[q] \in Quotes
              /\ closes # {}
        close == CHOOSE c \in closes : \A d \in closes : d <= c
    IN  [ok |-> ok,
         indent |-> IF ok THEN SubSeq(line, 1, i - 1) ELSE << >>,
         name |-> IF ok THEN SubSeq(line, i, e - 1) ELSE << >>,
         desc |-> IF ok
                  THEN SubSeq(line, q + 1, close - 1)
                       \o (IF line[close] = Q3 THEN << Q2 >> ELSE << >>)
                  ELSE << >>]

\* visit_Assign lines 93-100: the entry a declared attribute's line becomes
AttributeRewrite(line) ==
    LET m == AttributeMatch(line) IN
    m.indent \o << "#", "#", " ", "@property", " " >> \o m.name \o << linesep >>
    \o m.indent \o << "#", " " >> \o m.desc \o << linesep >>
    \o m.indent \o << "#", " ", "@hideinitializer", linesep >>
    \o RStrip(line) \o << linesep >>

\* the annotation of a variable written without the line's indentation
VarRewrite_NoIndent(line, id) ==
    << "#", "#", " ", "@var", " " >> \o id \o << linesep >>
    \o << "#", " ", "@hideinitializer", linesep >>
    \o << "#", " ", "@" \o CheckMemberName(id)[1], linesep >>
    \o RStrip(line) \o << linesep >>

\* visit_Assign lines 105-116: the entry the line of a non-public name becomes
VarRewrite(line, id) ==
    LET indentStr == IndentStr(line) IN
    indentStr \o << "#", "#", " ", "@var", " " >> \o id \o << linesep >>
    \o indentStr \o << "#", " ", "@hideinitializer", linesep >>
    \o indentStr \o << "#", " ", "@" \o CheckMemberName(id)[1], linesep >>
    \o RStrip(line) \o << linesep >>

\* an assignment that puts the entry in above the line instead of replacing it
SetLine_Insert(lns, lineno, entry) ==
    SubSeq(lns, 1, lineno - 1) \o << entry >> \o SubSeq(lns, lineno, Len(lns))

\* self.lines[lineNum] = entry
SetLine(lns, lineno, entry) == [lns EXCEPT ![lineno] = entry]

\* visit_Assign lines 88-116 on the Source Buffer.  With a target that is not
\* a simple name, formatting '{0.id}' at line 102 raises AttributeError: the
\* entry is rewritten and the run ends.
VisitAssignLines(lns, node) ==
    LET matched == AttributeMatch(lns[node.lineno]).ok
        lns1 == IF matched
                THEN SetLine(lns, node.lineno, AttributeRewrite(lns[node.lineno]))
                ELSE lns
        crashed == matched /\ ~node.isName
    IN  [lines |-> IF ~crashed /\ node.isName /\ CheckMemberName(node.name) # None
                   THEN SetLine(lns1, node.lineno, VarRewrite(lns1[node.lineno], node.name))
                   ELSE lns1,
         crashed |-> crashed]

\* (?:zope\.)?(?:interface\.)?(?:module|class|directly)?(?:Provides|Implements),
\* IGNORECASE: the callees the lines modelled use
ImplementsCallees ==
    {"implements", "Implements", "provides", "classImplements", "directlyProvides",
     "zope.interface.implements"}

\* _implementsRE.match(line), with group(1) the indentation and group(2) the
\* text up to the last ')' of the line
ImplementsMatch(line) ==
    LET i == SkipWs(line, 1)
        closes == {c \in (i + 3)..Len(line) : line[c] = ")"}
        ok == /\ i + 3 <= Len(line)
              /\ line[i] \in ImplementsCallees
              /\ line[i + 1] = "("
              /\ closes # {}
              /\ SkipWs(line, i + 2) < CHOOSE c \in closes : \A d \in closes : d <= c
        close == CHOOSE c \in closes : \A d \in closes : d <= c
    IN  [ok |-> ok,
         indent |-> IF ok THEN SubSeq(line, 1, i - 1) ELSE << >>,
         arg |-> IF ok THEN SubSeq(line, SkipWs(line, i + 2), close - 1) ELSE << >>]

\* visit_Call lines 133-135: the entry the line of an implements call becomes
ImplementsRewrite(line) ==
    LET m == ImplementsMatch(line) IN
    m.indent \o << "#", "#", " ", "@implements", " " >> \o m.arg \o << linesep >>
    \o m.indent \o RStrip(line) \o << linesep >>

\* visit_Call lines 128-135 on the Source Buffer
VisitCallLines(lns, node) ==
    IF ImplementsMatch(lns[node.lineno]).ok
    THEN SetLine(lns, node.lineno, ImplementsRewrite(lns[node.lineno]))
    ELSE lns

(***************************************************************************)
(* SpecStatements: AstVisit walking a module of statement lines, alone or  *)
(* below a class or function definition.                                   *)
(***************************************************************************)
DocText == << "the", " ", "doc" >>

\* an assignment (to a simple name or to an attribute of self; of a declared
\* attribute with a one-quote or a three-quote string, or of a number) or a
\* call statement
StmtShapes ==
    [type : {"Assign"}, name : NodeNames, self : BOOLEAN,
     value : {"attr1", "attr3", "plain"}, depth : 0..1]
    \cup [type : {"Call"}, callee : {"implements", "foo"}, depth : 0..1]

\* the definition the statements may stand below
HeaderShapes ==
    {sh \in NodeShapes :
        /\ sh.depth = 0
        /\ sh.name = << "A" >>
        /\ \/ sh.doc = "multi"
           \/ sh.doc = "none" /\ sh.type = "ClassDef" /\ ~sh.iface}

StmtLine(sh) ==
    IndentOf(sh.depth) \o
    (IF sh.type = "Call"
     THEN << sh.callee, "(", IF sh.callee = "foo" THEN "1" ELSE "IFoo", ")", linesep >>
     ELSE (IF sh.self THEN << "self", "." >> ELSE << >>) \o sh.name \o << " ", "=", " " >>
          \o (CASE sh.value = "attr1" -> << "Attribute", "(", DQ >> \o DocText \o << DQ, ")" >>
                [] sh.value = "attr3" -> << "Attribute", "(", Q3 >> \o DocText \o << Q3, ")" >>
                [] OTHER -> << "1" >>)
          \o << linesep >>)

\* statements stand at the top level, or in the body of the header before
\* any statement of the top level
WellPlaced(q) ==
    /\ q # << >>
    /\ \A i \in 1..Len(q) : q[i].type \in {"ClassDef", "FunctionDef"} <=> (i = 1 /\ Len(q) > 1
                                                                           /\ q[1] \in HeaderShapes)
    /\ \A i \in 2..Len(q) : q[i].depth = 1 => q[i - 1].depth = 1 \/ i = 2
    /\ q[1].depth = 0
    /\ \A i \in 2..Len(q) : q[i].depth = 1 => q[1].type \in {"ClassDef", "FunctionDef"}

Modules ==
    {q \in SeqsUpTo(StmtShapes, MaxStmts)
           \cup {<< h >> \o st : h \in HeaderShapes, st \in SeqsUpTo(StmtShapes, MaxStmts)} :
        WellPlaced(q)}

ItemText(q, i) ==
    IF q[i].type \in {"ClassDef", "FunctionDef"} THEN NodeText(q, i) ELSE << StmtLine(q[i]) >>

RECURSIVE ModuleUpTo(_, _)
ModuleUpTo(q, n) == IF n = 0 THEN << >> ELSE ModuleUpTo(q, n - 1) \o ItemText(q, n)

\* the nodes of a statement, in the order generic_visit reaches them: the
\* Assign, then the Call that is its value; the Call of a call statement
ItemNodes(sh, lineno) ==
    LET call == [type |-> "Call", name |-> << >>, depth |-> sh.depth, lineno |-> lineno,
                 hasDoc |-> FALSE, isName |-> FALSE]
    IN  IF sh.type \in {"ClassDef", "FunctionDef"}
        THEN << [type |-> sh.type, name |-> sh.name, depth |-> sh.depth, lineno |-> lineno,
                 hasDoc |-> sh.doc # "none", isName |-> TRUE] >>
        ELSE IF sh.type = "Call" THEN << call >>
        ELSE << [type |-> "Assign", name |-> sh.name, depth |-> sh.depth, lineno |-> lineno,
                 hasDoc |-> FALSE, isName |-> ~sh.self] >>
             \o (IF sh.value = "plain" THEN << >> ELSE << call >>)

RECURSIVE ParseModule(_, _)
ParseModule(q, n) ==
    IF n = 0 THEN << >>
    ELSE ParseModule(q, n - 1) \o ItemNodes(q[n], Len(ModuleUpTo(q, n - 1)) + 1)

StatementOptionSets ==
    [autobrief : BOOLEAN, autocode : {TRUE}, tablength : {4}, topLevelNamespace : {""}]

InitStatements ==
    /\ options \in StatementOptionSets
    /\ \E q \in Modules : tree = ParseModule(q, Len(q)) /\ lines = ModuleUpTo(q, Len(q))
    /\ cursor = 0
    /\ containingNodes = << >>
    /\ visited = << >>
    /\ output = None
    /\ tail = << >>
    /\ docLines = << >>
    /\ defLines = << >>
    /\ inLines = lines
    /\ rw = NewRewriter
    /\ roles = << >>
    /\ batches = << >>
    /\ pc = "module"
    /\ name = Idle.name
    /\ restrictionLevel = Idle.restrictionLevel
    /\ batch = Idle.batch

\* the outcome r of visit_Assign
Assigned(r) ==
    /\ lines' = r.lines
    /\ pc' = IF r.crashed THEN "crashed" ELSE "walk"

\* visit_Assign, lines 88-118
VisitAssign ==
    /\ AtNode("Assign")
    /\ Assigned(VisitAssignLines(lines, tree[cursor + 1]))
    /\ cursor' = cursor + 1
    /\ visited' = Append(visited, [node |-> cursor + 1, path |-> containingNodes,
                                   tail |-> << >>])
    /\ UNCHANGED << options, tail, docLines, defLines, tree, containingNodes, output,
                    walkerIdle >>

\* visit_Call, lines 128-140
VisitCall ==
    /\ AtNode("Call")
    /\ lines' = VisitCallLines(lines, tree[cursor + 1])
    /\ cursor' = cursor + 1
    /\ visited' = Append(visited, [node |-> cursor + 1, path |-> containingNodes,
                                   tail |-> << >>])
    /\ UNCHANGED << options, tail, docLines, defLines, tree, containingNodes, output, pc,
                    walkerIdle >>

NextStatements ==
    \/ VisitModule
    \/ VisitFunctionDef
    \/ VisitClassDef
    \/ VisitAssign
    \/ VisitCall
    \/ Leave
    \/ GetLines

SpecStatements == InitStatements /\ [][NextStatements]_vars


(***************************************************************************)
(* Properties of the side transformations, checked under SpecStatements.   *)
(***************************************************************************)
\* the step is the visit of an Assign node
AssignStep == pc = "walk" /\ cursor' = cursor + 1 /\ tree[cursor'].type = "Assign"

\* the text of the target: what stands between the indentation and the
\* whitespace before the '='
TargetText(line) ==
    SubSeq(line, Len(LeadingWs(line)) + 1, NonWsEnd(line, Len(LeadingWs(line)) + 1) - 1)

\* no entry of the Source Buffer but the k-th changes
OthersUnchanged(k) ==
    /\ Len(lines') = Len(lines)
    /\ \A j \in 1..Len(lines) : j # k => lines'[j] = lines[j]

\* the three annotation lines of a declared attribute and the line below them
PropertyBlock(line) ==
    LET ind == LeadingWs(line) IN
    ind \o << "#", "#", " ", "@property", " " >> \o TargetText(line) \o << linesep >>
    \o ind \o << "#", " " >> \o DocText \o << linesep >>
    \o ind \o << "#", " ", "@hideinitializer", linesep >>
    \o RStrip(line) \o << linesep >>

\* C15: the visit of an assignment whose line matches the declared-attribute
\* call form does not fail, and leaves in the line's entry the three lines
\* `@property <name>`, the string argument of the call and `@hideinitializer`,
\* each with the line's indentation, followed by the assignment as it was;
\* no other entry changes.
C15_DeclaredAttribute ==
    [][(AssignStep /\ AttributeMatch(lines[tree[cursor'].lineno]).ok) =>
        LET ln == tree[cursor'].lineno IN
        /\ pc' # "crashed"
        /\ IsSuffixOf(PropertyBlock(lines[ln]), lines'[ln])
        /\ OthersUnchanged(ln)
      ]_vars

\* the visibility of a name, by its underscores
VisibilityOf(n) ==
    IF EndsInTwoUnderscores(n) \/ LeadingUnderscores(n) = 0 THEN "public"
    ELSE IF LeadingUnderscores(n) = 1 THEN "protected"
    ELSE "private"

\* the three annotation lines of a non-public variable
VarBlock(line, n) ==
    LET ind == LeadingWs(line) IN
    ind \o << "#", "#", " ", "@var", " " >> \o n \o << linesep >>
    \o ind \o << "#", " ", "@hideinitializer", linesep >>
    \o ind \o << "#", " ", "@" \o VisibilityOf(n), linesep >>

BlockBefore ==
    LET b == Bounds(lines, tree[cursor + 1].lineno)
    IN  PostPass(RewriteBlock(StripMarkers(b.docLines), tail'), b.defLines)

\* the entry with the indentation of the class body after every line break
Reindented(entry, indentStr) == IndentAfterLinesep(<< linesep >> \o entry, indentStr)

\* C26: on the visit of a documented class that is not an interface, with
\* autobrief on and property annotations in the rewritten block, exactly the
\* entries holding a property annotation leave the documentation text and
\* follow the class header, reindented and in their order; every other entry
\* stays in the documentation text in its order; with a top-level namespace
\* the namespace directive ends the documentation text; the Source Buffer
\* keeps its length.  For an interface, a function or a block without
\* property annotation the documentation text is left as it is.
C26_PropertyHoisting ==
    [][(pc = "walk" /\ cursor' = cursor + 1 /\ tree[cursor'].hasDoc /\ pc' # "crashed") =>
        \A before \in {BlockBefore} :
        LET node == tree[cursor']
            path == GetFullPathName(containingNodes')
            isProp(e) == HasProperty(e)
            isOther(e) == ~HasProperty(e)
            props == SelectSeq(before.docLines, isProp)
            others == SelectSeq(before.docLines, isOther)
            indentStr == HoistIndent(lines, Bounds(lines, node.lineno).endLineNum + 1)
            moves == /\ options.autobrief
                     /\ node.type = "ClassDef"
                     /\ path[Len(path)].kind = "class"
                     /\ props # << >>
        IN  /\ Len(lines') = Len(lines)
            /\ moves =>
                  /\ docLines' = others
                  /\ defLines' = before.defLines \o
                                 [i \in 1..Len(props) |-> Reindented(props[i], indentStr)]
                  /\ options.topLevelNamespace # "" =>
                        /\ docLines' # << >>
                        /\ Holds(docLines'[Len(docLines')],
                                 << linesep, "#", " " >> \o NamespaceDirective(containingNodes'))
            /\ ~moves => docLines' = before.docLines
      ]_vars

\* the definition visited by this step has a documentation string
DocumentedVisit == cursor' = cursor + 1 /\ tree[cursor'].hasDoc

\* C27: the visit of a definition with a documentation string rewrites that
\* definition's own block (the block found starts on the line below the
\* declaration, and that line is still as in the input); it comes after the
\* visits of all documented definitions that start on earlier lines, so each
\* block is rewritten once and in the order of the start lines; and the
\* lines it assigns to share no line with the lines assigned to by the visit
\* of another documented definition before it.
C27_SourceOrder ==
    [][DocumentedVisit =>
        LET i == cursor'
            b == Bounds(lines, tree[i].lineno)
            r == visited'[i].region
        IN  /\ pc' # "crashed"
            /\ \A j \in 1..cursor : tree[j].lineno < tree[i].lineno
            /\ b.docstringStart = tree[i].lineno + 1
            /\ b.docLines # << >>
            /\ b.docLines[1] = inLines[tree[i].lineno + 1]
            /\ \A j \in 1..cursor :
                  tree[j].hasDoc =>
                     \/ visited[j].region.last < r.first
                     \/ r.last < visited[j].region.first
      ]_vars

=============================================================================
